---- MODULE Spec2Model ----
(***************************************************************************)
(* Scheduling extensions of amiraBenamer20/scheduler-plugins:              *)
(*   - the PodGroupManager of pkg/coscheduling/core/core.go                *)
(*     (gang-scheduling admission: PreFilter, Permit, ActivateSiblings,    *)
(*     BackoffPodGroup, DeletePermittedPodGroup, CheckClusterResource);    *)
(*   - the NetworkCostAware plugin of                                      *)
(*     pkg/network-cost-aware/networkcost/networkcost.go                   *)
(*     (PreFilter, Filter, Score, NormalizeScore).                         *)
(* Each component is a state machine of its own; the specifications at the *)
(* end of each part hold the other parts' variables still.                 *)
(***************************************************************************)
EXTENDS Integers, Sequences, FiniteSets, TLC

VARIABLES
    \* ---- PodGroupManager (core.go:80-95) and its collaborators
    now,             \* the wall clock read by the two go-cache instances
    permittedPG,     \* PodGroupManager.permittedPG: key -> cache item
    backedOffPG,     \* PodGroupManager.backedOffPG: key -> cache item
    minMember,       \* Spec.MinMember of the PodGroup ns1/g
    minResources,    \* Spec.MinResources of the PodGroup ns1/g (Nil or a ResourceList)
    podStatus,       \* pod -> "absent" | "pending" | the node it is assumed/bound to
    cycleState,      \* pod -> the PermitState stored under permitStateKey in the pod's CycleState
    podsToActivate,  \* framework.PodsToActivate.Map of the running scheduler: set of namespaced names
    ret,             \* the outcome of the last PodGroupManager call
    permitHist,      \* history: Permit calls for pods of ns1/g and how many requested the activation
    lastBackoff,     \* history: the last BackoffPodGroup call for ns1/g with a duration other than 0
    \* ---- CheckClusterResource (core.go:305-325) called on its own
    rcNodeList,      \* the nodeList argument: a sequence of NodeInfo
    rcRequest,       \* the resourceRequest argument: resource name -> quantity
    rcFirst,         \* the outcome of the first call on this cluster
    rcOut,           \* the outcome of the call on the node list as it is ordered now
    \* ---- NetworkCostAware.NormalizeScore (networkcost.go:391-420)
    nsRaw,           \* the NodeScoreList as the Score calls filled it
    nsScores,        \* the NodeScoreList, which NormalizeScore rewrites in place
    nsDone,          \* NormalizeScore has run on nsScores
    \* ---- NetworkCostAware PreFilter, Filter, Score (networkcost.go:177-388)
    tcWeightsName,   \* NetworkCostAware.weightsName
    tcTopology,      \* Spec.Weights of the NetworkTopology the API server holds
    tcDependencies,  \* the dependencies the AppGroup declares for the workload of pod0
    tcHostname,      \* Spec.NodeName of the AppGroup's other pods ("" while unscheduled)
    tcState,         \* the PreFilterState stored under preFilterStateKey in the CycleState
    tcRet,           \* the outcome of the last NetworkCostAware call
    tcPrev,          \* history: what the CycleState held before a repeated PreFilter call
    tcOther,         \* the PreFilterState in another CycleState: that of another pod's
                     \* concurrent cycle, or a clone of this cycle's
    \* ---- ActivateSiblings step by step (core.go:148-159)
    asLock,          \* PodsToActivate's mutex: the pod whose ActivateSiblings holds it, "" when free
    asPc,            \* pod -> where its ActivateSiblings call stands
    asPending,       \* pod -> the listed siblings its loop has still to store
    asStaged,        \* history: pod -> every sibling its ActivateSiblings calls set out to store
    \* ---- PreFilter step by step (core.go:197-214)
    pfPassed         \* the pods whose PreFilter missed permittedPG, passed the scan and has yet to insert

gaVars == <<now, permittedPG, backedOffPG, minMember, minResources,
            podStatus, cycleState, podsToActivate, ret, permitHist, lastBackoff>>

rcVars == <<rcNodeList, rcRequest, rcFirst, rcOut>>

nsVars == <<nsRaw, nsScores, nsDone>>

tcVars == <<tcWeightsName, tcTopology, tcDependencies, tcHostname, tcState, tcRet, tcPrev, tcOther>>

asVars == <<asLock, asPc, asPending, asStaged>>

pfVars == <<pfPassed>>

vars == <<gaVars, rcVars, nsVars, tcVars, asVars, pfVars>>

\* what the steps of one component leave alone
notGA == <<rcVars, nsVars, tcVars, asVars, pfVars>>

notRC == <<gaVars, nsVars, tcVars, asVars, pfVars>>

notNS == <<gaVars, rcVars, tcVars, asVars, pfVars>>

notTC == <<gaVars, rcVars, nsVars, asVars, pfVars>>

notAS == <<rcVars, nsVars, tcVars, pfVars>>

-----------------------------------------------------------------------------
(* Generic helpers for Go maps, modelled as functions with a finite domain *)

EmptyMap == [k \in {} |-> 0]

MapDelete(m, k) == [x \in (DOMAIN m) \ {k} |-> m[x]]

MapSet(m, k, v) == [x \in (DOMAIN m) \cup {k} |-> IF x = k THEN v ELSE m[x]]

\* Go's m[k] on a map of int64 / Quantity: the zero value for a missing key
MapGet(m, k) == IF k \in DOMAIN m THEN m[k] ELSE 0

Nil == [nil |-> TRUE]

-----------------------------------------------------------------------------
(* Bounds of the model *)

MaxTime == 3            \* the clock stops at this instant
MaxMinMember == 3       \* Spec.MinMember ranges over 1..MaxMinMember
MaxBackoff == 2         \* backoff durations range over 0..MaxBackoff

-----------------------------------------------------------------------------
(* The cluster the PodGroupManager looks at *)

Pods == {"p1", "p2", "p3", "q1", "u1"}

PodNamespace(p) == IF p = "q1" THEN "ns2" ELSE "ns1"

\* util.GetPodGroupLabel: the value of the pod's PodGroup label, "" without one
GetPodGroupLabel(p) == IF p = "u1" THEN "" ELSE "g"

\* fmt.Sprintf("%v/%v", namespace, name): a pair stands for the formatted string
NamespacedName(ns, name) == <<ns, name>>

\* util.GetPodGroupFullName
GetPodGroupFullName(p) ==
    IF GetPodGroupLabel(p) = "" THEN <<>> ELSE NamespacedName(PodNamespace(p), GetPodGroupLabel(p))

\* GetNamespacedName (core.go:328-330); the pod's name is its identifier
GetNamespacedName(p) == NamespacedName(PodNamespace(p), p)

\* The only PodGroup object the API server holds; ns2/g is named by q1's label but absent
ExistingPodGroups == {NamespacedName("ns1", "g")}

TheGroup == NamespacedName("ns1", "g")

GroupNames == {TheGroup, NamespacedName("ns2", "g")}

Nodes == {"n1", "n2"}

\* snapshotSharedLister.NodeInfos().List(): the snapshot's node order
NodeOrder == <<"n1", "n2">>

\* Allocatable of each node: MilliCPU and AllowedPodNumber
NodeAllocatable(n) == IF n = "n1" THEN [cpu |-> 2, pods |-> 2] ELSE [cpu |-> 1, pods |-> 2]

\* every pod requests one unit of cpu
PodRequest(p) == 1

-----------------------------------------------------------------------------
(* framework.NodeInfo and the cluster-resource check (core.go:303-366)     *)
(*                                                                         *)
(* A NodeInfo is [hasNode, name, Allocatable, Requested, Pods]; Allocatable *)
(* is [cpu, pods, scalar], Requested is [cpu, scalar]; a pod on a node is   *)
(* [id, group, cpu, scalar]. MilliCPU stands for Memory and                 *)
(* EphemeralStorage as well: the code treats the three alike.               *)

NilInfo == [hasNode |-> FALSE, name |-> "", Allocatable |-> [cpu |-> 0, pods |-> 0, scalar |-> EmptyMap],
            Requested |-> [cpu |-> 0, scalar |-> EmptyMap], Pods |-> {}]

\* NodeInfo.RemovePod on the clone: the pod leaves Pods and its requests leave Requested
RemovePod(info, pod) ==
    [info EXCEPT !.Pods = @ \ {pod},
                 !.Requested = [cpu |-> @.cpu - pod.cpu,
                                scalar |-> [k \in DOMAIN @.scalar |-> @.scalar[k] - MapGet(pod.scalar, k)]]]

RECURSIVE RemovePods(_, _)
RemovePods(info, pods) ==
    IF pods = {} THEN info
    ELSE LET p == CHOOSE x \in pods : TRUE
         IN RemovePods(RemovePod(info, p), pods \ {p})

\* core.go:333-343 without the loop: the clone keeps every pod
getNodeCloneKeepAll(info, desiredPodGroupName) == info

\* core.go:333-343: info.Snapshot() without the pods of the desired PodGroup
getNodeClone(info, desiredPodGroupName) ==
    RemovePods(info, {p \in info.Pods : p.group = desiredPodGroupName})

\* core.go:333 without info.Snapshot(): RemovePod works on the shared NodeInfo
infoAfterScanInPlace(info, desiredPodGroupName) == getNodeClone(info, desiredPodGroupName)

\* core.go:333-343: the shared NodeInfo once getNodeResource has returned;
\* RemovePod is called on nodeClone, the copy that info.Snapshot() made
infoAfterScan(info, desiredPodGroupName) == info

\* core.go:306-311: the node list once every NodeInfo with a Node went
\* through getNodeResource
NodeListAfterScan(nodeList, desiredPodGroupName) ==
    [i \in DOMAIN nodeList |->
        IF nodeList[i].hasNode THEN infoAfterScan(nodeList[i], desiredPodGroupName) ELSE nodeList[i]]

\* core.go:345-365: what is left on the clone, as a framework.Resource
leftResource(nodeClone) ==
    [AllowedPodNumber |-> nodeClone.Allocatable.pods - Cardinality(nodeClone.Pods),
     MilliCPU         |-> nodeClone.Allocatable.cpu - nodeClone.Requested.cpu,
     ScalarResources  |-> [k \in DOMAIN nodeClone.Allocatable.scalar |->
                              IF k \notin DOMAIN nodeClone.Requested.scalar
                              THEN nodeClone.Allocatable.scalar[k]
                              ELSE nodeClone.Allocatable.scalar[k] - nodeClone.Requested.scalar[k]]]

getNodeResource(info, desiredPodGroupName) == leftResource(getNodeClone(info, desiredPodGroupName))

\* util.ResourceList: a framework.Resource as a ResourceList keyed by resource name
ResourceList(r) ==
    [k \in {"cpu", "pods"} \cup DOMAIN r.ScalarResources |->
        IF k = "cpu" THEN r.MilliCPU
        ELSE IF k = "pods" THEN r.AllowedPodNumber
        ELSE r.ScalarResources[k]]

\* core.go:312-319: one node's resources taken off the running request;
\* a resource that reaches zero or below leaves the request
SubtractNode(resourceRequest, nodeResource) ==
    LET left(name) == resourceRequest[name] - MapGet(nodeResource, name)
    IN [name \in {k \in DOMAIN resourceRequest : left(k) > 0} |-> left(name)]

\* core.go:305-325. The result is [ok, gap]: gap is the request left when the
\* nodes are exhausted (the content of the "resource gap" error).
RECURSIVE CheckFrom(_, _, _, _)
CheckFrom(nodeList, i, resourceRequest, desiredPodGroupName) ==
    IF i > Len(nodeList) THEN [ok |-> FALSE, gap |-> resourceRequest]
    ELSE IF ~nodeList[i].hasNode
         THEN CheckFrom(nodeList, i + 1, resourceRequest, desiredPodGroupName)
         ELSE LET nodeResource == ResourceList(getNodeResource(nodeList[i], desiredPodGroupName))
                  rest == SubtractNode(resourceRequest, nodeResource)
              IN IF DOMAIN rest = {} THEN [ok |-> TRUE, gap |-> EmptyMap]
                 ELSE CheckFrom(nodeList, i + 1, rest, desiredPodGroupName)

CheckClusterResource(nodeList, resourceRequest, desiredPodGroupName) ==
    CheckFrom(nodeList, 1, resourceRequest, desiredPodGroupName)

-----------------------------------------------------------------------------
(* patrickmn/go-cache as the PodGroupManager uses it. A cache is a map     *)
(* key -> [Object, Expiration]; Expiration 0 means the item never expires;  *)
(* an item is expired once the clock is past its Expiration. Get and Add    *)
(* treat an expired item as absent, so the janitor that purges expired      *)
(* items changes nothing either of them observes and is left out.           *)

\* gocache.New(3*time.Second, ...) for permittedPG
PermittedDefaultExpiration == 3

\* gocache.New(10*time.Second, ...) for backedOffPG
BackedOffDefaultExpiration == 10

\* *pgMgr.scheduleTimeout, the configured schedule timeout
ScheduleTimeout == 1

\* Item.Expired without the clock: nothing ever expires
CacheExpiredNever(item, t) == FALSE

CacheExpired(item, t) == item.Expiration > 0 /\ t > item.Expiration

\* Cache.Get: found only when the key is present and not expired
CacheGet(cache, k, t) == k \in DOMAIN cache /\ ~CacheExpired(cache[k], t)

\* Cache.Set in the place of Cache.Add: the item replaces an unexpired one
CacheAddOverwrite(cache, k, x, d, defaultExpiration, t) ==
    LET dd == IF d = 0 THEN defaultExpiration ELSE d
        e  == IF dd > 0 THEN t + dd ELSE 0
    IN MapSet(cache, k, [Object |-> x, Expiration |-> e])

\* Cache.Add: stores the item only if the key is absent or expired (otherwise
\* it returns an error, which both call sites drop); a duration of 0 means the
\* cache's default expiration, a negative one no expiration
CacheAdd(cache, k, x, d, defaultExpiration, t) ==
    IF CacheGet(cache, k, t) THEN cache
    ELSE LET dd == IF d = 0 THEN defaultExpiration ELSE d
             e  == IF dd > 0 THEN t + dd ELSE 0
         IN MapSet(cache, k, [Object |-> x, Expiration |-> e])

\* Cache.Delete without effect
CacheDeleteNothing(cache, k) == cache

\* Cache.Delete
CacheDelete(cache, k) == MapDelete(cache, k)

\* Cache.DeleteExpired, run by the cache's janitor
CacheDeleteExpired(cache, t) == [k \in {x \in DOMAIN cache : ~CacheExpired(cache[x], t)} |-> cache[k]]

-----------------------------------------------------------------------------
(* The PodGroupManager's view of its collaborators                         *)

\* a pod of the lister or the snapshot as the resource check sees it
PodRecord(p) == [id |-> p, group |-> GetPodGroupFullName(p), cpu |-> PodRequest(p), scalar |-> EmptyMap]

\* the NodeInfo of node n in the snapshot: the pods assumed or bound to n
SnapshotNodeInfo(n) ==
    LET on == {p \in Pods : podStatus[p] = n}
    IN [hasNode |-> TRUE, name |-> n,
        Allocatable |-> [cpu |-> NodeAllocatable(n).cpu, pods |-> NodeAllocatable(n).pods, scalar |-> EmptyMap],
        Requested |-> [cpu |-> Cardinality(on), scalar |-> EmptyMap],
        Pods |-> {PodRecord(p) : p \in on}]

SnapshotNodeInfos == [i \in 1..Len(NodeOrder) |-> SnapshotNodeInfo(NodeOrder[i])]

\* podLister.Pods(namespace).List(selector on the PodGroup label)
ListPods(namespace, label) ==
    {p \in Pods : podStatus[p] # "absent" /\ PodNamespace(p) = namespace /\ GetPodGroupLabel(p) = label}

\* core.go:270-280: the full name and the PodGroup, Nil when the label is
\* missing or client.Get fails
GetPodGroup(pod) ==
    LET pgName == GetPodGroupLabel(pod)
        full == NamespacedName(PodNamespace(pod), pgName)
    IN IF pgName = "" THEN [fullName |-> <<>>, pg |-> Nil]
       ELSE IF full \notin ExistingPodGroups THEN [fullName |-> full, pg |-> Nil]
       ELSE [fullName |-> full,
             pg |-> [Name |-> pgName, Namespace |-> PodNamespace(pod),
                     MinMember |-> minMember, MinResources |-> minResources]]

\* core.go:283-301: the pods of the group in the snapshot that have a node
\* name; 0 when the snapshot's node list cannot be read
CalculateAssignedPods(nodesOK, podGroupName, namespace) ==
    IF ~nodesOK THEN 0
    ELSE Cardinality({p \in Pods : podStatus[p] \in Nodes /\ GetPodGroupLabel(p) = podGroupName
                                    /\ PodNamespace(p) = namespace})

-----------------------------------------------------------------------------
(* PodGroupManager.PreFilter (core.go:166-216)                              *)

\* The last call and what it answered. pg and d are the arguments of
\* BackoffPodGroup and DeletePermittedPodGroup; addErr is the error of the
\* cache's Add that BackoffPodGroup drops; removed says that
\* DeletePermittedPodGroup found an unexpired entry; afterDelete marks a
\* PreFilter whose preceding call was a DeletePermittedPodGroup that removed
\* the unexpired entry of the pod's group.
NoRet == [op |-> "none", pod |-> "", status |-> "", gap |-> EmptyMap, listed |-> FALSE, scanned |-> FALSE,
          nodesOK |-> TRUE, pg |-> <<>>, d |-> 0, addErr |-> FALSE, removed |-> FALSE,
          afterDelete |-> FALSE]

\* the history counters stop at 2, which stands for "more than once"
Saturate(n) == IF n > 2 THEN 2 ELSE n

NoBackoff == [called |-> FALSE, at |-> 0, d |-> 0, fresh |-> FALSE]

\* core.go:185 with <= for <
TooFewSiblingsLE(n, m) == n <= m

\* core.go:185: len(pods) < int(pg.Spec.MinMember)
TooFewSiblings(n, m) == n < m

\* core.go:174 with the lookup dropped
RecentlyBackedOffNever(pgFullName) == FALSE

\* core.go:174: the group is in the backed-off cache
RecentlyBackedOff(pgFullName) == CacheGet(backedOffPG, pgFullName, now)

\* core.go:197-199 dropped: the permitted cache is never consulted
AlreadyPermittedNever(pgFullName) == FALSE

\* core.go:197: pgMgr.permittedPG.Get(pgFullName)
AlreadyPermitted(pgFullName) == CacheGet(permittedPG, pgFullName, now)

\* core.go:206-208 without the pod-count requirement
ScanRequestResourcesOnly(pg) == pg.MinResources

\* core.go:206-208: MinResources plus the pod-count requirement
ScanRequest(pg) == MapSet(pg.MinResources, "pods", pg.MinMember)

\* core.go:169-172 after the backed-off lookup of core.go:174
UngroupedOutcomeBackoffFirst(pgFullName) ==
    [status |-> IF RecentlyBackedOff(pgFullName) THEN "failedRecently" ELSE "ok",
     gap |-> EmptyMap, listed |-> FALSE, scanned |-> FALSE, add |-> FALSE]

\* core.go:169-172: a pod without a PodGroup passes at once
UngroupedOutcome(pgFullName) ==
    [status |-> "ok", gap |-> EmptyMap, listed |-> FALSE, scanned |-> FALSE, add |-> FALSE]

\* core.go:166-216 with the permitted lookup of line 197 moved to the front
PreFilterOutcomePermittedFirst(pod, listOK, nodesOK) ==
    LET g == GetPodGroup(pod)
        out(st, gap, l, sc, a) == [status |-> st, gap |-> gap, listed |-> l, scanned |-> sc, add |-> a]
        pods == ListPods(PodNamespace(pod), GetPodGroupLabel(pod))
    IN IF g.pg = Nil THEN UngroupedOutcome(g.fullName)
       ELSE IF g.pg.MinResources # Nil /\ AlreadyPermitted(g.fullName)
            THEN out("ok", EmptyMap, FALSE, FALSE, FALSE)
       ELSE IF RecentlyBackedOff(g.fullName) THEN out("failedRecently", EmptyMap, FALSE, FALSE, FALSE)
       ELSE IF ~listOK THEN out("listFailed", EmptyMap, TRUE, FALSE, FALSE)
       ELSE IF TooFewSiblings(Cardinality(pods), g.pg.MinMember)
            THEN out("notEnoughSiblings", EmptyMap, TRUE, FALSE, FALSE)
       ELSE IF g.pg.MinResources = Nil THEN out("ok", EmptyMap, TRUE, FALSE, FALSE)
       ELSE IF ~nodesOK THEN out("nodesFailed", EmptyMap, TRUE, TRUE, FALSE)
       ELSE LET r == CheckClusterResource(SnapshotNodeInfos, ScanRequest(g.pg), g.fullName)
            IN IF r.ok THEN out("ok", EmptyMap, TRUE, TRUE, TRUE)
               ELSE out("resourceGap", r.gap, TRUE, TRUE, FALSE)

\* The outcome of PreFilter for pod: [status, gap, listed, scanned, add];
\* listed: the sibling pods were listed; scanned: the snapshot's nodes were
\* listed; add: the group goes into the permitted cache. listOK and nodesOK
\* say whether the pod lister and the snapshot lister answer without error.
PreFilterOutcome(pod, listOK, nodesOK) ==
    LET g == GetPodGroup(pod)
        out(st, gap, l, sc, a) == [status |-> st, gap |-> gap, listed |-> l, scanned |-> sc, add |-> a]
        pods == ListPods(PodNamespace(pod), GetPodGroupLabel(pod))
    IN IF g.pg = Nil THEN UngroupedOutcome(g.fullName)
       ELSE IF RecentlyBackedOff(g.fullName) THEN out("failedRecently", EmptyMap, FALSE, FALSE, FALSE)
       ELSE IF ~listOK THEN out("listFailed", EmptyMap, TRUE, FALSE, FALSE)
       ELSE IF TooFewSiblings(Cardinality(pods), g.pg.MinMember)
            THEN out("notEnoughSiblings", EmptyMap, TRUE, FALSE, FALSE)
       ELSE IF g.pg.MinResources = Nil THEN out("ok", EmptyMap, TRUE, FALSE, FALSE)
       ELSE IF AlreadyPermitted(g.fullName) THEN out("ok", EmptyMap, TRUE, FALSE, FALSE)
       ELSE IF ~nodesOK THEN out("nodesFailed", EmptyMap, TRUE, TRUE, FALSE)
       ELSE LET r == CheckClusterResource(SnapshotNodeInfos, ScanRequest(g.pg), g.fullName)
            IN IF r.ok THEN out("ok", EmptyMap, TRUE, TRUE, TRUE)
               ELSE out("resourceGap", r.gap, TRUE, TRUE, FALSE)

gaEnv == <<minMember, minResources>>

gaHist == <<permitHist, lastBackoff>>

\* core.go:166-216 with a failed group put into the backed-off cache
PreFilterBackingOff(pod, listOK, nodesOK) ==
    /\ podStatus[pod] = "pending"
    /\ LET o == PreFilterOutcome(pod, listOK, nodesOK)
           full == GetPodGroup(pod).fullName
       IN /\ permittedPG' = IF o.add
                            THEN CacheAdd(permittedPG, full, full, ScheduleTimeout,
                                          PermittedDefaultExpiration, now)
                            ELSE permittedPG
          /\ backedOffPG' = IF o.status \in {"notEnoughSiblings", "resourceGap"}
                            THEN CacheAdd(backedOffPG, full, Nil, 0, BackedOffDefaultExpiration, now)
                            ELSE backedOffPG
          /\ ret' = [NoRet EXCEPT !.op = "PreFilter", !.pod = pod, !.status = o.status, !.gap = o.gap,
                                   !.listed = o.listed, !.scanned = o.scanned,
                                   !.afterDelete = (ret.op = "DeletePermittedPodGroup" /\ ret.removed
                                                    /\ ret.pg = full)]
    /\ UNCHANGED <<now, gaEnv, podStatus, cycleState, podsToActivate, gaHist>>
    /\ UNCHANGED notGA

PreFilter(pod, listOK, nodesOK) ==
    /\ podStatus[pod] = "pending"
    /\ LET o == PreFilterOutcome(pod, listOK, nodesOK)
           full == GetPodGroup(pod).fullName
       IN /\ permittedPG' = IF o.add
                            THEN CacheAdd(permittedPG, full, full, ScheduleTimeout,
                                          PermittedDefaultExpiration, now)
                            ELSE permittedPG
          /\ ret' = [NoRet EXCEPT !.op = "PreFilter", !.pod = pod, !.status = o.status, !.gap = o.gap,
                                   !.listed = o.listed, !.scanned = o.scanned,
                                   !.afterDelete = (ret.op = "DeletePermittedPodGroup" /\ ret.removed
                                                    /\ ret.pg = full)]
    /\ UNCHANGED <<now, backedOffPG, gaEnv, podStatus, cycleState, podsToActivate, gaHist>>
    /\ UNCHANGED notGA

\* core.go:111-113 dropped: a zero backoff is handed to the cache as well
BackoffInsertAlways(pgName, backoff) ==
    CacheAdd(backedOffPG, pgName, Nil, backoff, BackedOffDefaultExpiration, now)

\* core.go:166-209: PreFilter(pod) up to the insertion: the group is not in
\* the permitted cache and the scan has passed
PreFilterScan(pod) ==
    /\ podStatus[pod] = "pending"
    /\ pod \notin pfPassed
    /\ PreFilterOutcome(pod, TRUE, TRUE).add
    /\ pfPassed' = pfPassed \cup {pod}
    /\ UNCHANGED gaVars
    /\ UNCHANGED <<rcVars, nsVars, tcVars, asVars>>

\* core.go:214: pgMgr.permittedPG.Add(pgFullName, pgFullName, *pgMgr.scheduleTimeout)
PreFilterAdd(pod) ==
    /\ pod \in pfPassed
    /\ pfPassed' = pfPassed \ {pod}
    /\ LET full == GetPodGroup(pod).fullName
       IN /\ permittedPG' = CacheAdd(permittedPG, full, full, ScheduleTimeout,
                                      PermittedDefaultExpiration, now)
          /\ ret' = [NoRet EXCEPT !.op = "PreFilter", !.pod = pod, !.status = "ok", !.listed = TRUE,
                                   !.scanned = TRUE, !.addErr = CacheGet(permittedPG, full, now)]
    /\ UNCHANGED <<now, backedOffPG, gaEnv, podStatus, cycleState, podsToActivate, gaHist>>
    /\ UNCHANGED <<rcVars, nsVars, tcVars, asVars>>

\* core.go:110-115: the backed-off cache after BackoffPodGroup(pgName, backoff)
BackoffInsert(pgName, backoff) ==
    IF backoff = 0 THEN backedOffPG
    ELSE CacheAdd(backedOffPG, pgName, Nil, backoff, BackedOffDefaultExpiration, now)

BackoffPodGroup(pgName, backoff) ==
    /\ backedOffPG' = BackoffInsert(pgName, backoff)
    /\ lastBackoff' = IF backoff = 0 \/ pgName # TheGroup THEN lastBackoff
                      ELSE [called |-> TRUE, at |-> now, d |-> backoff,
                            fresh |-> ~CacheGet(backedOffPG, pgName, now)]
    /\ ret' = [NoRet EXCEPT !.op = "BackoffPodGroup", !.pg = pgName, !.d = backoff,
                             !.addErr = backoff # 0 /\ CacheGet(backedOffPG, pgName, now)]
    /\ UNCHANGED <<now, permittedPG, gaEnv, podStatus, cycleState, podsToActivate, permitHist>>
    /\ UNCHANGED notGA

\* core.go:264-267
DeletePermittedPodGroup(pgFullName) ==
    /\ permittedPG' = CacheDelete(permittedPG, pgFullName)
    /\ ret' = [NoRet EXCEPT !.op = "DeletePermittedPodGroup", !.pg = pgFullName,
                             !.removed = CacheGet(permittedPG, pgFullName, now)]
    /\ UNCHANGED <<now, backedOffPG, gaEnv, podStatus, cycleState, podsToActivate, gaHist>>
    /\ UNCHANGED notGA

-----------------------------------------------------------------------------
(* The environment of the PodGroupManager                                   *)

\* time passes
Tick ==
    /\ now < MaxTime
    /\ now' = now + 1
    /\ ret' = NoRet
    /\ UNCHANGED <<permittedPG, backedOffPG, gaEnv, podStatus, cycleState, podsToActivate, gaHist>>
    /\ UNCHANGED notGA

\* a pod is created: the lister shows it, unscheduled
CreatePod(p) ==
    /\ podStatus[p] = "absent"
    /\ podStatus' = [podStatus EXCEPT ![p] = "pending"]
    /\ ret' = NoRet
    /\ UNCHANGED <<now, permittedPG, backedOffPG, gaEnv, cycleState, podsToActivate, gaHist>>
    /\ UNCHANGED notGA

\* a pending pod is deleted: the lister shows it no more
DeletePod(p) ==
    /\ podStatus[p] = "pending"
    /\ podStatus' = [podStatus EXCEPT ![p] = "absent"]
    /\ ret' = NoRet
    /\ UNCHANGED <<now, permittedPG, backedOffPG, gaEnv, cycleState, podsToActivate, gaHist>>
    /\ UNCHANGED notGA

\* the scheduler assumes (or binds) a pending pod on a node with room for it:
\* the next snapshot shows it there with its node name set
AssumePod(p, n) ==
    /\ podStatus[p] = "pending"
    /\ LET on == {x \in Pods : podStatus[x] = n}
       IN /\ Cardinality(on) + 1 =< NodeAllocatable(n).pods
          /\ Cardinality(on) + PodRequest(p) =< NodeAllocatable(n).cpu
    /\ podStatus' = [podStatus EXCEPT ![p] = n]
    /\ ret' = NoRet
    /\ UNCHANGED <<now, permittedPG, backedOffPG, gaEnv, cycleState, podsToActivate, gaHist>>
    /\ UNCHANGED notGA

\* an assumed pod is rejected or times out in Permit: it is forgotten and pending again
ForgetPod(p) ==
    /\ podStatus[p] \in Nodes
    /\ podStatus' = [podStatus EXCEPT ![p] = "pending"]
    /\ cycleState' = [cycleState EXCEPT ![p] = Nil]
    /\ ret' = NoRet
    /\ UNCHANGED <<now, permittedPG, backedOffPG, gaEnv, podsToActivate, gaHist>>
    /\ UNCHANGED notGA

-----------------------------------------------------------------------------
(* PodGroupManager.Permit and ActivateSiblings (core.go:119-160, 219-249)   *)

\* core.go:232: int32(assigned)+1 >= pg.Spec.MinMember
QuorumReached(assigned, m) == assigned + 1 >= m

\* core.go:236 dropped: every waiting pod requests the activation
RequestsActivationAlways(assigned) == TRUE

\* core.go:236: only the pod that finds no sibling assigned requests the activation
RequestsActivation(assigned) == assigned = 0

\* core.go:221-223: the pod carries no PodGroup label
NotSpecifiedVerdict == [status |-> "PodGroupNotSpecified", write |-> FALSE]

\* core.go:224-226 dropped: the pod waits for a group that is not there
NotFoundVerdictWaits == [status |-> "Wait", write |-> TRUE]

\* core.go:224-226: the label names a PodGroup that cannot be fetched
NotFoundVerdict == [status |-> "PodGroupNotFound", write |-> FALSE]

\* The outcome of Permit for pod: the Status and whether the PermitState
\* {Activate: true} is written to the pod's CycleState
PermitOutcome(pod, nodesOK) ==
    LET g == GetPodGroup(pod)
    IN IF g.fullName = <<>> THEN NotSpecifiedVerdict
       ELSE IF g.pg = Nil THEN NotFoundVerdict
       ELSE LET assigned == CalculateAssignedPods(nodesOK, g.pg.Name, g.pg.Namespace)
            IN IF QuorumReached(assigned, g.pg.MinMember) THEN [status |-> "Success", write |-> FALSE]
               ELSE [status |-> "Wait", write |-> RequestsActivation(assigned)]

\* A scheduling cycle of a pending pod reaches Permit; its CycleState holds no
\* PermitState yet. The snapshot of the cycle does not show the pod itself.
Permit(pod, nodesOK) ==
    /\ podStatus[pod] = "pending"
    /\ cycleState[pod] = Nil
    /\ LET o == PermitOutcome(pod, nodesOK)
       IN /\ cycleState' = IF o.write THEN [cycleState EXCEPT ![pod] = [Activate |-> TRUE]]
                           ELSE cycleState
          /\ ret' = [NoRet EXCEPT !.op = "Permit", !.pod = pod, !.status = o.status, !.nodesOK = nodesOK]
          /\ permitHist' = IF GetPodGroupFullName(pod) # TheGroup THEN permitHist
                           ELSE [calls |-> Saturate(permitHist.calls + 1),
                                 activations |-> Saturate(permitHist.activations + (IF o.write THEN 1 ELSE 0))]
    /\ UNCHANGED <<now, permittedPG, backedOffPG, gaEnv, podStatus, podsToActivate, lastBackoff>>
    /\ UNCHANGED notGA

\* core.go:141-146 dropped: the pod itself stays in the list
SiblingsToActivateWithSelf(pod, listOK) ==
    LET pgName == GetPodGroupLabel(pod)
    IN IF pgName = "" THEN {}
       ELSE IF cycleState[pod] = Nil \/ ~cycleState[pod].Activate THEN {}
       ELSE IF ~listOK THEN {}
       ELSE {GetNamespacedName(p) : p \in ListPods(PodNamespace(pod), pgName)}

\* core.go:127-131: the CycleState holds a PermitState with Activate set
ActivationRequested(pod) == cycleState[pod] # Nil /\ cycleState[pod].Activate

\* core.go:119-160: what ActivateSiblings adds to PodsToActivate.Map
SiblingsToActivate(pod, listOK) ==
    LET pgName == GetPodGroupLabel(pod)
    IN IF pgName = "" THEN {}
       ELSE IF cycleState[pod] = Nil \/ ~cycleState[pod].Activate THEN {}
       ELSE IF ~listOK THEN {}
       ELSE {GetNamespacedName(p) : p \in ListPods(PodNamespace(pod), pgName) \ {pod}}

ActivateSiblings(pod, listOK) ==
    /\ podStatus[pod] # "absent"
    /\ podsToActivate' = podsToActivate \cup SiblingsToActivate(pod, listOK)
    /\ LET reached == GetPodGroupLabel(pod) # "" /\ ActivationRequested(pod)
       IN ret' = [NoRet EXCEPT !.op = "ActivateSiblings", !.pod = pod, !.listed = reached,
                               !.status = IF reached /\ ~listOK THEN "listFailed" ELSE ""]
    /\ UNCHANGED <<now, permittedPG, backedOffPG, gaEnv, podStatus, cycleState, gaHist>>
    /\ UNCHANGED notGA

\* core.go:151 without the mutex: the loop starts whoever holds the lock
LockFreeAlways(lock) == TRUE

\* core.go:151: s.Lock() returns once no other call holds the mutex
LockFree(lock) == lock = ""

asFrame == <<now, permittedPG, backedOffPG, gaEnv, podStatus, cycleState, ret, gaHist>>

\* core.go:121-148: ActivateSiblings(pod) up to the lock: the activation is
\* requested, the pods are listed, the pod itself is dropped; with no sibling
\* left the call is over
ActivateBegin(pod) ==
    /\ asPc[pod] = "idle"
    /\ podStatus[pod] # "absent"
    /\ LET pods == SiblingsToActivate(pod, TRUE)
       IN /\ asPending' = [asPending EXCEPT ![pod] = pods]
          /\ asStaged' = [asStaged EXCEPT ![pod] = @ \cup pods]
          /\ asPc' = [asPc EXCEPT ![pod] = IF pods = {} THEN "done" ELSE "waiting"]
    /\ UNCHANGED <<asLock, podsToActivate, asFrame>>
    /\ UNCHANGED notAS

\* core.go:151: s.Lock()
ActivateLock(pod) ==
    /\ asPc[pod] = "waiting"
    /\ LockFree(asLock)
    /\ asLock' = pod
    /\ asPc' = [asPc EXCEPT ![pod] = "inserting"]
    /\ UNCHANGED <<asPending, asStaged, podsToActivate, asFrame>>
    /\ UNCHANGED notAS

\* core.go:152-155: one turn of the loop, s.Map[namespacedName] = pod
ActivateInsert(pod) ==
    /\ asPc[pod] = "inserting"
    /\ \E k \in asPending[pod] :
          /\ podsToActivate' = podsToActivate \cup {k}
          /\ asPending' = [asPending EXCEPT ![pod] = @ \ {k}]
    /\ UNCHANGED <<asLock, asPc, asStaged, asFrame>>
    /\ UNCHANGED notAS

\* core.go:156: s.Unlock() after the loop
ActivateUnlock(pod) ==
    /\ asPc[pod] = "inserting"
    /\ asPending[pod] = {}
    /\ asLock' = IF asLock = pod THEN "" ELSE asLock
    /\ asPc' = [asPc EXCEPT ![pod] = "done"]
    /\ UNCHANGED <<asPending, asStaged, podsToActivate, asFrame>>
    /\ UNCHANGED notAS

\* the pod's scheduling cycle ends: its CycleState is discarded
EndCycle(pod) ==
    /\ cycleState[pod] # Nil
    /\ cycleState' = [cycleState EXCEPT ![pod] = Nil]
    /\ ret' = NoRet
    /\ UNCHANGED <<now, permittedPG, backedOffPG, gaEnv, podStatus, podsToActivate, gaHist>>
    /\ UNCHANGED notGA

-----------------------------------------------------------------------------
(* Specification of the admission caches: PreFilter, BackoffPodGroup,       *)
(* DeletePermittedPodGroup, the clock and the pods coming and going         *)

\* no CheckClusterResource call made yet
NoCheck == [called |-> FALSE, ok |-> FALSE, gap |-> EmptyMap]

\* the other components at rest
rcIdle == rcNodeList = <<>> /\ rcRequest = EmptyMap /\ rcFirst = NoCheck /\ rcOut = NoCheck

nsIdle == nsRaw = <<>> /\ nsScores = <<>> /\ nsDone = FALSE

\* no NetworkCostAware call made yet
NoTCRet == [op |-> "none", pod |-> "", node |-> "", status |-> "", score |-> 0,
            podsOK |-> TRUE, nodesOK |-> TRUE]

NoPrev == [repeat |-> FALSE, stored |-> Nil]

tcIdle ==
    /\ tcWeightsName = "NetperfCosts"
    /\ tcTopology = <<>>
    /\ tcDependencies = <<>>
    /\ tcHostname = [p \in {"pA", "pB"} |-> ""]
    /\ tcState = Nil
    /\ tcRet = NoTCRet
    /\ tcPrev = NoPrev
    /\ tcOther = Nil

\* Spec.MinResources of ns1/g: unset, or as much cpu as the two nodes offer
MinResourceChoices == {Nil, [cpu |-> 3]}

\* no ActivateSiblings call is under way
asIdle ==
    /\ asLock = ""
    /\ asPc = [p \in Pods |-> "idle"]
    /\ asPending = [p \in Pods |-> {}]
    /\ asStaged = [p \in Pods |-> {}]

gaInitCommon ==
    /\ asIdle
    /\ pfPassed = {}
    /\ now = 1
    /\ permittedPG = EmptyMap
    /\ backedOffPG = EmptyMap
    /\ minMember \in 1..MaxMinMember
    /\ minResources \in MinResourceChoices
    /\ cycleState = [p \in Pods |-> Nil]
    /\ podsToActivate = {}
    /\ ret = NoRet
    /\ lastBackoff = NoBackoff
    /\ permitHist = [calls |-> 0, activations |-> 0]

Init ==
    /\ gaInitCommon
    /\ rcIdle /\ nsIdle /\ tcIdle
    /\ podStatus = [p \in Pods |-> IF p \in {"p2", "p3"} THEN "absent" ELSE "pending"]

\* the failures of the two listers PreFilter is run against: none, the pod
\* lister's, the snapshot's
ListerAnswers == {<<TRUE, TRUE>>, <<FALSE, TRUE>>, <<TRUE, FALSE>>}

Next ==
    \/ Tick
    \/ \E d \in 0..MaxBackoff : BackoffPodGroup(TheGroup, d)
    \/ \E g \in GroupNames : DeletePermittedPodGroup(g)
    \/ \E p \in {"p1", "q1", "u1"}, a \in ListerAnswers : PreFilter(p, a[1], a[2])
    \/ \E p \in {"p2", "p3"} : CreatePod(p)
    \/ \E p \in {"p1", "q1"} : AssumePod(p, "n1")
    \/ \E p \in {"p1", "q1"} : ForgetPod(p)

Spec == Init /\ [][Next]_vars

-----------------------------------------------------------------------------
(* Specification of the cache operations alone: every pod is there and      *)
(* pending, both group names are backed off and deleted, and the backoff    *)
(* duration may be negative (go-cache's NoExpiration)                       *)

InitHooks ==
    /\ gaInitCommon
    /\ rcIdle /\ nsIdle /\ tcIdle
    /\ podStatus = [p \in Pods |-> "pending"]

NextHooks ==
    \/ Tick
    \/ \E g \in GroupNames, d \in (0 - 1)..MaxBackoff : BackoffPodGroup(g, d)
    \/ \E g \in GroupNames : DeletePermittedPodGroup(g)
    \/ \E p \in {"p1", "q1", "u1"}, a \in ListerAnswers : PreFilter(p, a[1], a[2])

SpecHooks == InitHooks /\ [][NextHooks]_vars

\* The cache operations on ns1/g with a clock that keeps running: time.Now()
\* advances whatever the scheduler does
NextExpiry ==
    \/ Tick
    \/ \E d \in (0 - 1)..MaxBackoff : BackoffPodGroup(TheGroup, d)
    \/ DeletePermittedPodGroup(TheGroup)
    \/ \E a \in ListerAnswers : PreFilter("p1", a[1], a[2])

SpecExpiry == InitHooks /\ [][NextExpiry]_vars /\ WF_vars(Tick)

\* PreFilter calls of concurrent cycles for p1 and p2 of ns1/g, interleaved
\* between the scan and the insertion with one another, with BackoffPodGroup,
\* with DeletePermittedPodGroup and with the clock
InitRace == InitHooks /\ minResources # Nil

NextRace ==
    \/ Tick
    \/ \E d \in 1..MaxBackoff : BackoffPodGroup(TheGroup, d)
    \/ DeletePermittedPodGroup(TheGroup)
    \/ \E p \in {"p1", "p2"} : PreFilterScan(p)
    \/ \E p \in {"p1", "p2"} : PreFilterAdd(p)

SpecRace == InitRace /\ [][NextRace]_vars

\* PreFilter for p1 of ns1/g while the group is backed off and permitted and
\* while its sibling pods come and go
NextOrder ==
    \/ Tick
    \/ \E d \in 1..MaxBackoff : BackoffPodGroup(TheGroup, d)
    \/ \E a \in ListerAnswers : PreFilter("p1", a[1], a[2])
    \/ \E p \in {"p2", "p3"} : CreatePod(p)
    \/ \E p \in {"p2", "p3"} : DeletePod(p)

SpecOrder == InitHooks /\ [][NextOrder]_vars

-----------------------------------------------------------------------------
(* Specification of the Permit stage: scheduling cycles of the pods reach   *)
(* Permit, waiting pods stay assumed or are forgotten, siblings are staged  *)

InitPermit ==
    /\ gaInitCommon
    /\ rcIdle /\ nsIdle /\ tcIdle
    /\ minResources = Nil
    /\ podStatus = [p \in Pods |-> "pending"]

NextPermit ==
    \/ \E p \in Pods, nodesOK \in BOOLEAN : Permit(p, nodesOK)
    \/ \E p \in Pods, listOK \in BOOLEAN : ActivateSiblings(p, listOK)
    \/ \E p \in Pods : EndCycle(p)
    \/ \E p \in {"p1", "p2", "p3"} : AssumePod(p, "n1")
    \/ \E p \in Pods : ForgetPod(p)

SpecPermit == InitPermit /\ [][NextPermit]_vars

\* a pod whose Permit has just answered stays assumed on a node with room for
\* it: later snapshots show it with its node name
StayAssumed(p, n) ==
    /\ ret.op = "Permit" /\ ret.pod = p
    /\ AssumePod(p, n)

\* The pods of ns1/g are scheduled again and again: each cycle reaches Permit,
\* and a pod that was told to wait stays assumed
InitQuorum ==
    /\ gaInitCommon
    /\ rcIdle /\ nsIdle /\ tcIdle
    /\ minResources = Nil
    /\ podStatus = [p \in Pods |-> "pending"]

NextQuorum ==
    \/ \E p \in {"p1", "p2", "p3"}, nodesOK \in BOOLEAN : Permit(p, nodesOK)
    \/ \E p \in {"p1", "p2", "p3"}, n \in Nodes : StayAssumed(p, n)
    \/ \E p \in {"p1", "p2", "p3"} : EndCycle(p)

\* the scheduler keeps retrying every pending pod, a waiting pod is held on
\* its node, and a cycle that ended gives way to the next one
SpecQuorum ==
    /\ InitQuorum /\ [][NextQuorum]_vars
    /\ \A p \in {"p1", "p2", "p3"} :
          /\ SF_vars(Permit(p, TRUE))
          /\ SF_vars(\E n \in Nodes : StayAssumed(p, n))
          /\ WF_vars(EndCycle(p))

\* The cycles of p1, p2 and p3 reach Permit, and their ActivateSiblings calls
\* run concurrently, step by step, against one PodsToActivate
InitActivate ==
    /\ gaInitCommon
    /\ rcIdle /\ nsIdle /\ tcIdle
    /\ minMember = MaxMinMember /\ minResources = Nil
    /\ podStatus = [p \in Pods |-> "pending"]

NextActivate ==
    \/ \E p \in {"p1", "p2", "p3"} : Permit(p, TRUE)
    \/ \E p \in {"p1", "p2", "p3"} : ActivateBegin(p)
    \/ \E p \in {"p1", "p2", "p3"} : ActivateLock(p)
    \/ \E p \in {"p1", "p2", "p3"} : ActivateInsert(p)
    \/ \E p \in {"p1", "p2", "p3"} : ActivateUnlock(p)

SpecActivate == InitActivate /\ [][NextActivate]_vars

-----------------------------------------------------------------------------
(* Properties of the Group Admission Manager                                *)

\* the pods carrying the pod's PodGroup label in the pod's namespace
SiblingCount(pod) == Cardinality({p \in Pods : /\ podStatus[p] # "absent"
                                               /\ PodNamespace(p) = PodNamespace(pod)
                                               /\ GetPodGroupLabel(p) = GetPodGroupLabel(pod)})

\* the pods of ns1/g that the snapshot shows with a node name
AssignedInSnapshot == Cardinality({p \in {"p1", "p2", "p3"} : podStatus[p] \in Nodes})

\* the last call was op for a pod whose PodGroup ns1/g was found
CallForGroup(op) == ret.op = op /\ ret.pod \in {"p1", "p2", "p3"}

GroupBackedOff == TheGroup \in DOMAIN backedOffPG /\ ~CacheExpired(backedOffPG[TheGroup], now)

(* C1 as stated: PreFilter for a pod of a PodGroup with minMember = m fails
   whenever fewer than m pods carry the group's label in the pod's namespace,
   and once at least m exist it succeeds or fails only on the resource checks. *)
C1_AsStated ==
    CallForGroup("PreFilter") =>
        /\ (SiblingCount(ret.pod) < minMember => ret.status # "ok")
        /\ (SiblingCount(ret.pod) >= minMember => ret.status \in {"ok", "nodesFailed", "resourceGap"})

(* C1 amended: PreFilter fails whenever fewer than m labelled pods exist; once
   at least m exist, the group is not backed off and the pod listing answers,
   it succeeds or fails only on the resource checks, and it succeeds when
   minResources is unset. *)
C1_MinMemberGate ==
    CallForGroup("PreFilter") =>
        /\ (SiblingCount(ret.pod) < minMember => ret.status # "ok")
        /\ (SiblingCount(ret.pod) >= minMember /\ ~GroupBackedOff /\ ret.status # "listFailed"
               => /\ ret.status \in {"ok", "nodesFailed", "resourceGap"}
                  /\ (minResources = Nil => ret.status = "ok"))

\* PreFilter succeeded for p1 once the second of two required pods existed
C1_Witness ==
    /\ CallForGroup("PreFilter") /\ ret.status = "ok"
    /\ minMember = 2 /\ SiblingCount(ret.pod) = 2

(* C2 as stated: Permit for a pod of a found PodGroup returns Success iff
   assigned + 1 >= minMember, assigned being the number of the group's pods in
   the snapshot that have a node name, and Wait otherwise. *)
C2_AsStated ==
    CallForGroup("Permit") =>
        /\ ret.status \in {"Success", "Wait"}
        /\ (ret.status = "Success" <=> AssignedInSnapshot + 1 >= minMember)

(* C3 as stated: across the Permit calls for the pods of one PodGroup the
   activation of the siblings is requested exactly once, by the first pod. *)
C3_AsStated == permitHist.calls > 0 => permitHist.activations = 1

(* C3 amended: a Permit call for a pod of a found PodGroup writes the
   PermitState {Activate: true} exactly when it returns Wait having counted no
   assigned pod of the group (none in the snapshot, or the snapshot's node list
   could not be read); a pod that reaches Permit while a sibling is counted as
   assigned never requests the activation. *)
C3_ActivationRule ==
    CallForGroup("Permit") =>
        (cycleState[ret.pod] # Nil <=>
            (ret.status = "Wait" /\ (AssignedInSnapshot = 0 \/ ~ret.nodesOK)))

\* a later pod of the group waits without requesting the activation
C3_Witness ==
    /\ CallForGroup("Permit") /\ ret.status = "Wait" /\ ret.nodesOK
    /\ AssignedInSnapshot = 1 /\ cycleState[ret.pod] = Nil
    /\ permitHist.activations = 1

(* C4 as stated: after BackoffPodGroup(g, d) with d > 0, every PreFilter call
   for a pod of g made before d has elapsed fails with "failed recently"
   without listing pods or nodes, and a call made after d has elapsed is
   evaluated normally. *)
C4_AsStated ==
    (CallForGroup("PreFilter") /\ lastBackoff.called) =>
        /\ (now < lastBackoff.at + lastBackoff.d
               => ret.status = "failedRecently" /\ ~ret.listed /\ ~ret.scanned)
        /\ (now > lastBackoff.at + lastBackoff.d
               => ret.status # "failedRecently" /\ ret.listed)

(* C4 amended: the same, for a BackoffPodGroup(g, d) call made while g has no
   unexpired entry in the backed-off set (a call that finds one changes
   nothing: the entry keeps its expiry). *)
C4_BackoffWindow ==
    (CallForGroup("PreFilter") /\ lastBackoff.called /\ lastBackoff.fresh) =>
        /\ (now < lastBackoff.at + lastBackoff.d
               => ret.status = "failedRecently" /\ ~ret.listed /\ ~ret.scanned)
        /\ (now > lastBackoff.at + lastBackoff.d
               => ret.status # "failedRecently" /\ ret.listed)

\* a PreFilter call after the backoff has elapsed went on to list the siblings
C4_Witness ==
    /\ CallForGroup("PreFilter") /\ lastBackoff.called /\ lastBackoff.fresh
    /\ now > lastBackoff.at + lastBackoff.d /\ ret.listed

-----------------------------------------------------------------------------
(* Specification of CheckClusterResource as a function of its arguments:    *)
(* a node list and a request are drawn, the check runs, the list is         *)
(* reordered and the check runs again                                       *)

\* the longest node list drawn
MaxNodeListLen == 2

\* the largest cpu quantity requested
MaxCpuRequest == 6

\* the largest number of pods requested
MaxPodsRequest == 2

\* the PodGroup manager at rest
gaIdle ==
    /\ gaInitCommon
    /\ minMember = 1
    /\ minResources = Nil
    /\ podStatus = [p \in Pods |-> "pending"]

\* a pod on a node, of the desired PodGroup or of another one
PodOn(id, group, cpu) == [id |-> id, group |-> group, cpu |-> cpu, scalar |-> EmptyMap]

OtherGroup == NamespacedName("ns1", "h")

\* util.GetPodGroupFullName of a pod without the PodGroup label
NoGroup == <<>>

\* a NodeInfo whose Requested is the sum of its pods' requests
NodeInfoOf(hasNode, cpu, pods, podsOn) ==
    LET RECURSIVE Sum(_)
        Sum(ps) == IF ps = {} THEN 0
                   ELSE LET x == CHOOSE y \in ps : TRUE IN x.cpu + Sum(ps \ {x})
    IN [hasNode |-> hasNode, name |-> "", 
        Allocatable |-> [cpu |-> cpu, pods |-> pods, scalar |-> EmptyMap],
        Requested |-> [cpu |-> Sum(podsOn), scalar |-> EmptyMap],
        Pods |-> podsOn]

\* The NodeInfos the lists are drawn from:
\*   an empty node with 2 cpu and 2 pod slots;
\*   a node with 4 cpu and 4 pod slots running one pod of the desired group
\*   and one of another group (3 cpu and 3 slots are left for the group);
\*   a node whose allocatable shrank to 1 cpu and 1 slot under two running
\*   pods, one of another group and one without a group (2 cpu and 1 slot
\*   short);
\*   a NodeInfo without a Node, which the check skips
NodeInfoChoices ==
    { NodeInfoOf(TRUE, 2, 2, {}),
      NodeInfoOf(TRUE, 4, 4, {PodOn("a", TheGroup, 2), PodOn("b", OtherGroup, 1)}),
      NodeInfoOf(TRUE, 1, 1, {PodOn("c", OtherGroup, 2), PodOn("d", NoGroup, 1)}),
      NodeInfoOf(FALSE, 8, 8, {}) }

NodeLists == UNION {[1..n -> NodeInfoChoices] : n \in 0..MaxNodeListLen}

InitResource ==
    /\ gaIdle /\ nsIdle /\ tcIdle
    /\ rcNodeList \in NodeLists
    /\ \E c \in 0..MaxCpuRequest, n \in 1..MaxPodsRequest : rcRequest = [cpu |-> c, pods |-> n]
    /\ rcFirst = NoCheck
    /\ rcOut = NoCheck

\* CheckClusterResource(nodeList, resourceRequest, ns1/g) on the list as it is ordered now
CallCheckClusterResource ==
    /\ ~rcOut.called
    /\ LET r == CheckClusterResource(rcNodeList, rcRequest, TheGroup)
           out == [called |-> TRUE, ok |-> r.ok, gap |-> r.gap]
       IN /\ rcOut' = out
          /\ rcFirst' = IF rcFirst.called THEN rcFirst ELSE out
    /\ rcNodeList' = NodeListAfterScan(rcNodeList, TheGroup)
    /\ UNCHANGED rcRequest
    /\ UNCHANGED notRC

\* the snapshot lists the same nodes in another order: two neighbours swap
ReorderNodeList(i) ==
    /\ rcFirst.called
    /\ i \in 1..(Len(rcNodeList) - 1)
    /\ rcNodeList[i] # rcNodeList[i + 1]
    /\ rcNodeList' = [rcNodeList EXCEPT ![i] = rcNodeList[i + 1], ![i + 1] = rcNodeList[i]]
    /\ rcOut' = NoCheck
    /\ UNCHANGED <<rcRequest, rcFirst>>
    /\ UNCHANGED notRC

NextResource ==
    \/ CallCheckClusterResource
    \/ \E i \in 1..MaxNodeListLen : ReorderNodeList(i)

SpecResource == InitResource /\ [][NextResource]_vars

\* the left capacity of resource name summed over the nodes of the list
RECURSIVE SumLeft(_, _, _)
SumLeft(nodeList, i, name) ==
    IF i > Len(nodeList) THEN 0
    ELSE (IF nodeList[i].hasNode
          THEN MapGet(ResourceList(getNodeResource(nodeList[i], TheGroup)), name)
          ELSE 0) + SumLeft(nodeList, i + 1, name)

(* C7 as stated: CheckClusterResource succeeds iff for every requested
   resource the nodes' left capacities sum to at least the requested amount,
   and when it fails the gap reported for each unmet resource is the requested
   amount minus that sum. *)
C7_AsStated ==
    rcOut.called =>
        /\ rcOut.ok <=> \A name \in DOMAIN rcRequest : SumLeft(rcNodeList, 1, name) >= rcRequest[name]
        /\ ~rcOut.ok =>
              \A name \in DOMAIN rcRequest :
                  SumLeft(rcNodeList, 1, name) < rcRequest[name]
                      => /\ name \in DOMAIN rcOut.gap
                         /\ rcOut.gap[name] = rcRequest[name] - SumLeft(rcNodeList, 1, name)

(* C8 as stated: the verdict of CheckClusterResource, and the gap reported on
   failure, are the same for every ordering of the node list. *)
C8_AsStated ==
    (rcFirst.called /\ rcOut.called) => (rcOut.ok = rcFirst.ok /\ rcOut.gap = rcFirst.gap)

-----------------------------------------------------------------------------
(* NetworkCostAware.NormalizeScore (networkcost.go:391-437). A             *)
(* NodeScoreList is a sequence of scores; the node names play no part.      *)
(* The float64 arithmetic of lines 411 and 414 is exact on the scores of    *)
(* the model (every operand is an integer far below 2^53), so int64() of    *)
(* the quotient is the integer quotient.                                    *)

\* framework.MaxNodeScore
MaxNodeScore == 100

\* framework.MinNodeScore
MinNodeScore == 0

\* math.MaxInt64 and math.MinInt64, narrowed to the 32-bit integers of TLC: only their
\* being above and below every score matters
MathMaxInt64 == 2147483647

MathMinInt64 == -2147483647

\* networkcost.go:423-437: the loop carries <<min, max>> from score to score
RECURSIVE MinMaxFrom(_, _, _, _)
MinMaxFrom(scores, i, min, max) ==
    IF i > Len(scores) THEN <<min, max>>
    ELSE LET newMax == IF scores[i] > max THEN scores[i] ELSE max
             newMin == IF scores[i] < min THEN scores[i] ELSE min
         IN MinMaxFrom(scores, i + 1, newMin, newMax)

getMinMaxScores(scores) == MinMaxFrom(scores, 1, MathMaxInt64, MathMinInt64)

\* networkcost.go:411-412 without the inversion: the normalized cost itself
rescaledPlain(score, minCost, maxCost) ==
    (MaxNodeScore * (score - minCost)) \div (maxCost - minCost)

\* networkcost.go:408-412: the score of a node when maxCost # minCost
rescaled(score, minCost, maxCost) ==
    MaxNodeScore - (MaxNodeScore * (score - minCost)) \div (maxCost - minCost)

\* networkcost.go:413-416: the score of a node when maxCost = minCost
inverted(score, minCost) == MaxNodeScore - (score - minCost)

\* networkcost.go:391-420: the list as NormalizeScore leaves it
NormalizeScore(scores) ==
    LET mm == getMinMaxScores(scores)
        minCost == mm[1]
        maxCost == mm[2]
    IN IF minCost = 0 /\ maxCost = 0 THEN scores
       ELSE [i \in 1..Len(scores) |->
                IF maxCost # minCost THEN rescaled(scores[i], minCost, maxCost)
                ELSE inverted(scores[i], minCost)]

\* the longest NodeScoreList drawn
MaxScoreListLen == 3

\* the raw costs the Score calls return
RawCostChoices == {0, 1, 3, 50, 100, 250}

ScoreLists == UNION {[1..n -> RawCostChoices] : n \in 0..MaxScoreListLen}

InitNormalize ==
    /\ gaIdle /\ rcIdle /\ tcIdle
    /\ nsRaw \in ScoreLists
    /\ nsScores = nsRaw
    /\ nsDone = FALSE

\* the framework runs NormalizeScore once on the list of a scheduling cycle
CallNormalizeScore ==
    /\ ~nsDone
    /\ nsScores' = NormalizeScore(nsScores)
    /\ nsDone' = TRUE
    /\ UNCHANGED nsRaw
    /\ UNCHANGED notNS

NextNormalize == CallNormalizeScore

SpecNormalize == InitNormalize /\ [][NextNormalize]_vars

RawSet == {nsRaw[i] : i \in 1..Len(nsRaw)}

RawMin == CHOOSE x \in RawSet : \A y \in RawSet : x <= y

RawMax == CHOOSE x \in RawSet : \A y \in RawSet : x >= y

\* floor(num / den) for den > 0, by its defining inequalities
IsFloorOf(q, num, den) == q * den <= num /\ num < (q + 1) * den

(* C6: when the raw costs are not all equal, NormalizeScore replaces each raw
   cost c by maxNodeScore - floor(maxNodeScore * (c - min) / (max - min)):
   [0, 50, 100] becomes [100, 50, 0], a lowest-cost node receives the highest
   score, a cheaper node never scores below a dearer one, and every final
   score lies in [minNodeScore, maxNodeScore]; when all raw costs are equal,
   all final scores are equal. *)
C6_Normalize ==
    (nsDone /\ Len(nsRaw) > 0) =>
        /\ Len(nsScores) = Len(nsRaw)
        /\ RawMax # RawMin =>
              /\ \A i \in 1..Len(nsRaw) :
                    /\ IsFloorOf(MaxNodeScore - nsScores[i],
                                 MaxNodeScore * (nsRaw[i] - RawMin), RawMax - RawMin)
                    /\ nsScores[i] >= MinNodeScore /\ nsScores[i] <= MaxNodeScore
                    /\ nsRaw[i] = RawMin => nsScores[i] = MaxNodeScore
              /\ \A i, j \in 1..Len(nsRaw) : nsRaw[i] < nsRaw[j] => nsScores[i] >= nsScores[j]
              /\ nsRaw = <<0, 50, 100>> => nsScores = <<100, 50, 0>>
        /\ RawMax = RawMin => \A i, j \in 1..Len(nsRaw) : nsScores[i] = nsScores[j]

\* the list [0, 50, 100] of the example was normalized
C6_Witness == nsDone /\ nsRaw = <<0, 50, 100>> /\ nsScores = <<100, 50, 0>>

-----------------------------------------------------------------------------
(* NetworkCostAware (networkcost.go). The cluster has four nodes; pod0 is   *)
(* the pod being scheduled, of workload s0 of the AppGroup "ag"; pA and pB  *)
(* are the AppGroup's pods of the workloads s1 and s2; podX carries no      *)
(* AppGroup label.                                                          *)

\* MaxCost (networkcost.go:53)
MaxCost == 100

\* SameHostname (networkcost.go:56)
SameHostname == 0

\* SameZone (networkcost.go:59)
SameZone == 1

\* ntv1alpha1.NetworkTopologyRegion and NetworkTopologyZone, the topology keys
NetworkTopologyRegion == "topology.kubernetes.io/region"

NetworkTopologyZone == "topology.kubernetes.io/zone"

\* ntv1alpha1.NetworkTopologyNetperfCosts
NetworkTopologyNetperfCosts == "NetperfCosts"

\* the snapshot's nodes in the order NodeInfos().List() returns them
TCNodeList == <<"m1", "m2", "m3", "m4", "m5">>

TCNodes == {TCNodeList[i] : i \in 1..Len(TCNodeList)}

\* util.GetNodeRegion: the node's region label, "" without one
GetNodeRegion(n) == IF n \in {"m1", "m2"} THEN "A" ELSE IF n = "m3" THEN "B" ELSE ""

\* util.GetNodeZone: the node's zone label, "" without one; m5 carries the
\* zone label of m1 and no region label
GetNodeZone(n) ==
    IF n \in {"m1", "m5"} THEN "z1" ELSE IF n = "m2" THEN "z2" ELSE IF n = "m3" THEN "z3" ELSE ""

\* util.GetPodAppGroupLabel
GetPodAppGroupLabel(pod) == IF pod = "podX" THEN "" ELSE "ag"

\* the workload selector of a pod of the AppGroup
GetPodAppGroupSelector(pod) == IF pod = "pA" THEN "s1" ELSE IF pod = "pB" THEN "s2" ELSE "s0"

\* Go's byte-wise order on the strings that are compared
StringOrder == <<"A", "B", "topology.kubernetes.io/region", "topology.kubernetes.io/zone", "z1", "z2", "z3">>

StringLess(a, b) ==
    LET rank(x) == CHOOSE i \in 1..Len(StringOrder) : StringOrder[i] = x
    IN rank(a) < rank(b)

\* sort.Sort on a list whose elements have distinct keys: insertion by key
RECURSIVE SortedInsert(_, _, _)
SortedInsert(sorted, x, field) ==
    IF sorted = <<>> THEN <<x>>
    ELSE IF StringLess(x[field], Head(sorted)[field]) THEN <<x>> \o sorted
         ELSE <<Head(sorted)>> \o SortedInsert(Tail(sorted), x, field)

RECURSIVE SortByField(_, _)
SortByField(list, field) ==
    IF list = <<>> THEN <<>>
    ELSE SortedInsert(SortByField(Tail(list), field), Head(list), field)

\* sort.Sort(util.ByTopologyKey(list))
ByTopologyKey(list) == SortByField(list, "TopologyKey")

\* sort.Sort(util.ByOrigin(list))
ByOrigin(list) == SortByField(list, "Origin")

\* util.FindTopologyKey: binary search of a TopologyList for a topology key;
\* the OriginList of the entry found, an empty list when none is found
RECURSIVE FindTopologyKeyIn(_, _, _, _)
FindTopologyKeyIn(topologyList, low, high, key) ==
    IF low > high THEN <<>>
    ELSE LET mid == (low + high) \div 2
         IN IF topologyList[mid].TopologyKey = key THEN topologyList[mid].OriginList
            ELSE IF StringLess(topologyList[mid].TopologyKey, key)
                 THEN FindTopologyKeyIn(topologyList, mid + 1, high, key)
                 ELSE FindTopologyKeyIn(topologyList, low, mid - 1, key)

FindTopologyKey(topologyList, key) == FindTopologyKeyIn(topologyList, 1, Len(topologyList), key)

\* util.FindOriginCosts: binary search of an OriginList for an origin; the
\* CostList of the entry found, an empty list when none is found
RECURSIVE FindOriginCostsIn(_, _, _, _)
FindOriginCostsIn(originList, low, high, origin) ==
    IF low > high THEN <<>>
    ELSE LET mid == (low + high) \div 2
         IN IF originList[mid].Origin = origin THEN originList[mid].CostList
            ELSE IF StringLess(originList[mid].Origin, origin)
                 THEN FindOriginCostsIn(originList, mid + 1, high, origin)
                 ELSE FindOriginCostsIn(originList, low, mid - 1, origin)

FindOriginCosts(originList, origin) == FindOriginCostsIn(originList, 1, Len(originList), origin)

\* networkcost.go:440-447: with manual weights every scheme's TopologyList is
\* sorted by topology key
sortNetworkTopologyCosts(weights) ==
    IF tcWeightsName # NetworkTopologyNetperfCosts
    THEN [i \in 1..Len(weights) |-> [weights[i] EXCEPT !.TopologyList = ByTopologyKey(@)]]
    ELSE weights

\* util.CostKey{Origin, Destination}
CostKey(origin, destination) == <<origin, destination>>

\* the costs every other origin of the level lists towards origin, turned round
ReverseCosts(originList, origin) ==
    LET RECURSIVE From(_)
        From(i) ==
            IF i > Len(originList) THEN <<>>
            ELSE LET o == originList[i]
                     hit == {j \in 1..Len(o.CostList) : o.CostList[j].Destination = origin}
                 IN (IF hit = {} THEN <<>>
                     ELSE <<[Destination |-> o.Origin,
                             NetworkCost |-> o.CostList[CHOOSE j \in hit : TRUE].NetworkCost]>>)
                    \o From(i + 1)
    IN From(1)

\* networkcost.go:460-470 as if costs held in both directions
LevelCostsSymmetric(w, key, origin) ==
    LET topologyList == FindTopologyKey(w.TopologyList, key)
        sorted == IF tcWeightsName # NetworkTopologyNetperfCosts THEN ByOrigin(topologyList) ELSE topologyList
    IN FindOriginCosts(sorted, origin) \o ReverseCosts(sorted, origin)

\* networkcost.go:460-470 and 479-489: the CostList of origin at the level of
\* the topology key, the level's OriginList being sorted first with manual weights
LevelCosts(w, key, origin) ==
    LET topologyList == FindTopologyKey(w.TopologyList, key)
        sorted == IF tcWeightsName # NetworkTopologyNetperfCosts THEN ByOrigin(topologyList) ELSE topologyList
    IN FindOriginCosts(sorted, origin)

\* networkcost.go:473-477 and 492-496: the costs enter the map under the origin
RECURSIVE AddCosts(_, _, _, _)
AddCosts(costMap, origin, costs, i) ==
    IF i > Len(costs) THEN costMap
    ELSE AddCosts(MapSet(costMap, CostKey(origin, costs[i].Destination), costs[i].NetworkCost),
                  origin, costs, i + 1)

\* networkcost.go:456-497 for one weighting scheme
populateFromWeights(costMap, w, region, zone) ==
    IF w.Name # tcWeightsName THEN costMap
    ELSE LET withRegion == IF region # ""
                           THEN AddCosts(costMap, region, LevelCosts(w, NetworkTopologyRegion, region), 1)
                           ELSE costMap
         IN IF zone # ""
            THEN AddCosts(withRegion, zone, LevelCosts(w, NetworkTopologyZone, zone), 1)
            ELSE withRegion

\* networkcost.go:450-499
RECURSIVE populateCostMapFrom(_, _, _, _, _)
populateCostMapFrom(costMap, weights, i, region, zone) ==
    IF i > Len(weights) THEN costMap
    ELSE populateCostMapFrom(populateFromWeights(costMap, weights[i], region, zone),
                             weights, i + 1, region, zone)

populateCostMap(costMap, networkTopology, region, zone) ==
    populateCostMapFrom(costMap, networkTopology, 1, region, zone)

\* snapshotSharedLister.NodeInfos().Get(hostname) succeeds for the snapshot's nodes only
SnapshotHasNode(hostname) == hostname \in TCNodes

\* the k-th turn of the nested loops over scheduledList and dependencyList
PodOfTurn(scheduledList, dependencyList, k) == scheduledList[((k - 1) \div Len(dependencyList)) + 1]

DependencyOfTurn(dependencyList, k) == dependencyList[((k - 1) % Len(dependencyList)) + 1]

\* networkcost.go:550, 564 with < for <=
WithinMaximumStrict(cost, maxNetworkCost) == cost < maxNetworkCost

\* networkcost.go:550, 564: cost <= d.MaxNetworkCost
WithinMaximum(cost, maxNetworkCost) == cost <= maxNetworkCost

\* networkcost.go:540-569 with a missing cost entry counted as violated
DependencyVerdictMissingViolated(costMap, region, zone, regionPodNodeInfo, zonePodNodeInfo, d) ==
    LET byCost(key) == IF key \notin DOMAIN costMap THEN "violated"
                       ELSE IF WithinMaximum(costMap[key], d.MaxNetworkCost) THEN "satisfied" ELSE "violated"
    IN IF regionPodNodeInfo = "" /\ zonePodNodeInfo = "" THEN "violated"
       ELSE IF region = regionPodNodeInfo
            THEN (IF zone = zonePodNodeInfo THEN "satisfied" ELSE byCost(CostKey(zone, zonePodNodeInfo)))
            ELSE byCost(CostKey(region, regionPodNodeInfo))

\* networkcost.go:540-569: what a dependency on a pod of another node counts as
\* ("none" when the cost map holds no entry)
DependencyVerdict(costMap, region, zone, regionPodNodeInfo, zonePodNodeInfo, d) ==
    LET byCost(key) == IF key \notin DOMAIN costMap THEN "none"
                       ELSE IF WithinMaximum(costMap[key], d.MaxNetworkCost) THEN "satisfied" ELSE "violated"
    IN IF regionPodNodeInfo = "" /\ zonePodNodeInfo = "" THEN "violated"
       ELSE IF region = regionPodNodeInfo
            THEN (IF zone = zonePodNodeInfo THEN "satisfied" ELSE byCost(CostKey(zone, zonePodNodeInfo)))
            ELSE byCost(CostKey(region, regionPodNodeInfo))

\* networkcost.go:502-575; the result is [satisfied, violated, err]
RECURSIVE checkRequirementsFrom(_, _, _, _, _, _, _, _, _)
checkRequirementsFrom(scheduledList, dependencyList, nodeName, region, zone, costMap, k, satisfied, violated) ==
    IF k > Len(scheduledList) * Len(dependencyList)
    THEN [satisfied |-> satisfied, violated |-> violated, err |-> FALSE]
    ELSE LET podAllocated == PodOfTurn(scheduledList, dependencyList, k)
             d == DependencyOfTurn(dependencyList, k)
             next(sat, vio) == checkRequirementsFrom(scheduledList, dependencyList, nodeName, region,
                                                     zone, costMap, k + 1, sat, vio)
         IN IF podAllocated.Hostname = "" \/ podAllocated.Selector # d.Selector
            THEN next(satisfied, violated)
            ELSE IF podAllocated.Hostname = nodeName THEN next(satisfied + 1, violated)
            ELSE IF ~SnapshotHasNode(podAllocated.Hostname)
                 THEN [satisfied |-> satisfied, violated |-> violated, err |-> TRUE]
            ELSE LET v == DependencyVerdict(costMap, region, zone,
                                            GetNodeRegion(podAllocated.Hostname),
                                            GetNodeZone(podAllocated.Hostname), d)
                 IN next(IF v = "satisfied" THEN satisfied + 1 ELSE satisfied,
                         IF v = "violated" THEN violated + 1 ELSE violated)

checkMaxNetworkCostRequirements(scheduledList, dependencyList, nodeName, region, zone, costMap) ==
    checkRequirementsFrom(scheduledList, dependencyList, nodeName, region, zone, costMap, 1, 0, 0)

\* networkcost.go:598-634 with the value replacing the sum
AddCostLast(cost, value) == value

\* networkcost.go:598-634: cost += value
AddCost(cost, value) == cost + value

\* networkcost.go:616-635 with the else branches dropped: a missing entry adds nothing
LookupCostSkipping(costMap, key) == IF key \in DOMAIN costMap THEN costMap[key] ELSE 0

\* networkcost.go:616-635: the cost of the map, MaxCost without an entry
LookupCost(costMap, key) == IF key \in DOMAIN costMap THEN costMap[key] ELSE MaxCost

\* networkcost.go:610-636: the cost of reaching a pod on another node
CostOfPod(costMap, region, zone, regionPodNodeInfo, zonePodNodeInfo) ==
    IF regionPodNodeInfo = "" /\ zonePodNodeInfo = "" THEN MaxCost
    ELSE IF region = regionPodNodeInfo
         THEN (IF zone = zonePodNodeInfo THEN SameZone
               ELSE LookupCost(costMap, CostKey(zone, zonePodNodeInfo)))
         ELSE LookupCost(costMap, CostKey(region, regionPodNodeInfo))

\* networkcost.go:578-641; the result is [cost, err]
RECURSIVE accumulateFrom(_, _, _, _, _, _, _, _)
accumulateFrom(scheduledList, dependencyList, nodeName, region, zone, costMap, k, cost) ==
    IF k > Len(scheduledList) * Len(dependencyList) THEN [cost |-> cost, err |-> FALSE]
    ELSE LET podAllocated == PodOfTurn(scheduledList, dependencyList, k)
             d == DependencyOfTurn(dependencyList, k)
             next(c) == accumulateFrom(scheduledList, dependencyList, nodeName, region, zone,
                                       costMap, k + 1, c)
         IN IF podAllocated.Selector # d.Selector THEN next(cost)
            ELSE IF podAllocated.Hostname = nodeName THEN next(AddCost(cost, SameHostname))
            ELSE IF ~SnapshotHasNode(podAllocated.Hostname) THEN [cost |-> cost, err |-> TRUE]
            ELSE next(AddCost(cost, CostOfPod(costMap, region, zone,
                                              GetNodeRegion(podAllocated.Hostname),
                                              GetNodeZone(podAllocated.Hostname))))

getAccumulatedCost(scheduledList, dependencyList, nodeName, region, zone, costMap) ==
    accumulateFrom(scheduledList, dependencyList, nodeName, region, zone, costMap, 1, 0)

\* networkcost.go:185 dropped: the initial state is never stored
ScoreEquallyStateUnwritten == Nil

\* the PreFilterState as far as Filter and Score read it
ScoreEquallyState ==
    [scoreEqually |-> TRUE, nodeCostMap |-> EmptyMap, satisfiedMap |-> EmptyMap,
     violatedMap |-> EmptyMap, finalCostMap |-> EmptyMap]

\* util.GetDependencyList: the dependencies of the pod's workload in the AppGroup
GetDependencyList(pod) == IF pod = "pod0" THEN tcDependencies ELSE <<>>

\* Spec.NodeName of a pod the lister returns
PodNodeName(pod) == IF pod \in DOMAIN tcHostname THEN tcHostname[pod] ELSE ""

\* util.GetScheduledList: the pods that have a node name, in the lister's order
RECURSIVE GetScheduledList(_)
GetScheduledList(pods) ==
    IF pods = <<>> THEN <<>>
    ELSE (IF PodNodeName(Head(pods)) # ""
          THEN <<[Selector |-> GetPodAppGroupSelector(Head(pods)), Hostname |-> PodNodeName(Head(pods))]>>
          ELSE <<>>) \o GetScheduledList(Tail(pods))

\* networkcost.go:267-269, 278-280 dropped: the loop goes on after a failed lookup
LoopFailureIgnored(req, acm) == FALSE

\* networkcost.go:267-269, 278-280: either helper could not find a pod's node
LoopFailure(req, acm) == req.err \/ acm.err

\* networkcost.go:246-283: the loop over the nodes; the result is the state to
\* store, or "error" when a pod's node is missing from the snapshot
RECURSIVE nodeLoopFrom(_, _, _, _, _, _)
\* a violated map that gets an entry only for a node with violated dependencies
UpdateViolatedMapIfViolated(violatedMap, name, violated) ==
    IF violated = 0 THEN violatedMap ELSE MapSet(violatedMap, name, violated)

\* violatedMap[nodeInfo.Node().Name] = violated
UpdateViolatedMap(violatedMap, name, violated) == MapSet(violatedMap, name, violated)

nodeLoopFrom(nodeList, i, networkTopology, scheduledList, dependencyList, acc) ==
    IF i > Len(nodeList) THEN [err |-> FALSE, state |-> acc]
    ELSE LET name == nodeList[i]
             region == GetNodeRegion(name)
             zone == GetNodeZone(name)
             costMap == populateCostMap(EmptyMap, networkTopology, region, zone)
             req == checkMaxNetworkCostRequirements(scheduledList, dependencyList, name, region, zone, costMap)
             acm == getAccumulatedCost(scheduledList, dependencyList, name, region, zone, costMap)
         IN IF LoopFailure(req, acm) THEN [err |-> TRUE, state |-> acc]
            ELSE nodeLoopFrom(nodeList, i + 1, networkTopology, scheduledList, dependencyList,
                     [acc EXCEPT !.nodeCostMap = MapSet(@, name, costMap),
                                 !.satisfiedMap = MapSet(@, name, req.satisfied),
                                 !.violatedMap = UpdateViolatedMap(@, name, req.violated),
                                 !.finalCostMap = MapSet(@, name, acm.cost)])

\* networkcost.go:441-442: with manual weights sortNetworkTopologyCosts reads
\* networkTopology.Spec, a nil pointer when no namespace holds the object
sortPanics(networkTopology) ==
    tcWeightsName # NetworkTopologyNetperfCosts /\ networkTopology = Nil

\* networkcost.go:455: populateCostMap reads networkTopology.Spec for the first node
populatePanics(networkTopology, nodeList) == Len(nodeList) > 0 /\ networkTopology = Nil

\* networkcost.go:177-301; pods is what the pod lister returns when it answers.
\* The result is [status, state]: state is what the CycleState holds afterwards;
\* the status "panic" is a nil-pointer dereference, which ends the process.
PreFilterResult(pod, podsOK, nodesOK, pods) ==
    LET networkTopology == sortNetworkTopologyCosts(tcTopology)
        dependencyList == GetDependencyList(pod)
        scheduledList == GetScheduledList(pods)
        loop == nodeLoopFrom(TCNodeList, 1, networkTopology, scheduledList, dependencyList,
                             [ScoreEquallyState EXCEPT !.scoreEqually = FALSE])
    IN IF GetPodAppGroupLabel(pod) = "" THEN [status |-> "Success", state |-> ScoreEquallyState]
       ELSE IF sortPanics(tcTopology) THEN [status |-> "panic", state |-> ScoreEquallyState]
       ELSE IF dependencyList = <<>> THEN [status |-> "Success", state |-> ScoreEquallyState]
       ELSE IF ~podsOK THEN [status |-> "Success", state |-> ScoreEquallyState]
       ELSE IF Len(pods) = 0 THEN [status |-> "Success", state |-> ScoreEquallyState]
       ELSE IF Len(scheduledList) = 0 THEN [status |-> "Success", state |-> ScoreEquallyState]
       ELSE IF ~nodesOK THEN [status |-> "Error", state |-> ScoreEquallyState]
       ELSE IF populatePanics(tcTopology, TCNodeList) THEN [status |-> "panic", state |-> ScoreEquallyState]
       ELSE IF loop.err THEN [status |-> "Error", state |-> ScoreEquallyState]
       ELSE [status |-> "Success", state |-> loop.state]

\* what the calls of one scheduling cycle leave alone: the plugin's
\* configuration, the objects it reads and the CycleState of any other cycle
tcEnv == <<tcWeightsName, tcTopology, tcDependencies, tcHostname, tcOther>>

\* the scheduler process has ended in a panic: no plugin runs any more
Crashed == tcRet.status = "panic"

\* NetworkCostAware.PreFilter for a pod in the CycleState of its scheduling cycle
NetworkCostAwarePreFilter(pod, podsOK, nodesOK, pods) ==
    LET o == PreFilterResult(pod, podsOK, nodesOK, pods)
        repeat == /\ tcRet.op = "PreFilter" /\ tcRet.pod = pod
                  /\ tcRet.podsOK = podsOK /\ tcRet.nodesOK = nodesOK
    IN /\ ~Crashed
       /\ tcState' = o.state
       /\ tcRet' = [NoTCRet EXCEPT !.op = "PreFilter", !.pod = pod, !.status = o.status,
                                   !.podsOK = podsOK, !.nodesOK = nodesOK]
       /\ tcPrev' = [repeat |-> repeat, stored |-> IF repeat THEN tcState ELSE Nil]
       /\ UNCHANGED tcEnv
       /\ UNCHANGED notTC

\* networkcost.go:185, 299 on a CycleState shared by the cycles: the other
\* cycle's PreFilter overwrites the state of this one
PreFilterOtherCycleShared(pod, podsOK, nodesOK, pods) ==
    /\ ~Crashed
    /\ tcOther' = PreFilterResult(pod, podsOK, nodesOK, pods).state
    /\ tcState' = tcOther'
    /\ UNCHANGED <<tcWeightsName, tcTopology, tcDependencies, tcHostname, tcRet, tcPrev>>
    /\ UNCHANGED notTC

\* NetworkCostAware.PreFilter for a pod of another scheduling cycle, which runs
\* concurrently on its own CycleState (networkcost.go:185, 299)
PreFilterOtherCycle(pod, podsOK, nodesOK, pods) ==
    /\ ~Crashed
    /\ tcOther' = PreFilterResult(pod, podsOK, nodesOK, pods).state
    /\ UNCHANGED <<tcWeightsName, tcTopology, tcDependencies, tcHostname, tcState, tcRet, tcPrev>>
    /\ UNCHANGED notTC

\* networkcost.go:357 with the comparison turned non-strict
TooManyViolatedGE(violated, satisfied) == violated >= satisfied

\* networkcost.go:357
TooManyViolated(violated, satisfied) == violated > satisfied

\* networkcost.go:339-343 dropped: a missing PreFilterState admits the node
FilterStatusLenient(node) ==
    IF node = "" THEN "Error"
    ELSE IF tcState = Nil THEN "Success"
    ELSE IF tcState.scoreEqually THEN "Success"
    ELSE IF TooManyViolated(MapGet(tcState.violatedMap, node), MapGet(tcState.satisfiedMap, node))
         THEN "Unschedulable"
         ELSE "Success"

\* networkcost.go:329-362; node is "" for a NodeInfo without a Node
FilterStatus(node) ==
    IF node = "" THEN "Error"
    ELSE IF tcState = Nil THEN "Error"
    ELSE IF tcState.scoreEqually THEN "Success"
    ELSE IF TooManyViolated(MapGet(tcState.violatedMap, node), MapGet(tcState.satisfiedMap, node))
         THEN "Unschedulable"
         ELSE "Success"

Filter(node) ==
    /\ ~Crashed
    /\ tcRet' = [NoTCRet EXCEPT !.op = "Filter", !.node = node, !.status = FilterStatus(node)]
    /\ tcPrev' = NoPrev
    /\ UNCHANGED <<tcEnv, tcState>>
    /\ UNCHANGED notTC

\* networkcost.go:365-388 with a state.Write: Score stores a fresh PreFilterState
ScoreStoringState(nodeName) ==
    /\ ~Crashed
    /\ tcRet' = [NoTCRet EXCEPT
                    !.op = "Score", !.node = nodeName,
                    !.status = IF tcState = Nil THEN "Error" ELSE "Success",
                    !.score = IF tcState = Nil \/ tcState.scoreEqually THEN MinNodeScore
                              ELSE MapGet(tcState.finalCostMap, nodeName)]
    /\ tcPrev' = NoPrev
    /\ tcState' = ScoreEquallyState
    /\ UNCHANGED tcEnv
    /\ UNCHANGED notTC

\* networkcost.go:365-388
Score(nodeName) ==
    /\ ~Crashed
    /\ tcRet' = [NoTCRet EXCEPT
                    !.op = "Score", !.node = nodeName,
                    !.status = IF tcState = Nil THEN "Error" ELSE "Success",
                    !.score = IF tcState = Nil \/ tcState.scoreEqually THEN MinNodeScore
                              ELSE MapGet(tcState.finalCostMap, nodeName)]
    /\ tcPrev' = NoPrev
    /\ UNCHANGED <<tcEnv, tcState>>
    /\ UNCHANGED notTC

-----------------------------------------------------------------------------
(* Specification of the NetworkCostAware plugin: a NetworkTopology, an      *)
(* AppGroup and a placement of the AppGroup's pods are drawn; PreFilter,    *)
(* Filter and Score run against the CycleState of pod0's scheduling cycle   *)

\* a cost the NetworkTopology may leave out: <<>> when undeclared, <<c>> when declared
Undeclared == <<>>

CostListTo(destination, cost) ==
    IF cost = Undeclared THEN <<>> ELSE <<[Destination |-> destination, NetworkCost |-> cost[1]]>>

\* the region level: A -> B and B -> A, each declared or not
RegionOrigins(ab, ba) ==
    (IF ab = Undeclared THEN <<>> ELSE <<[Origin |-> "A", CostList |-> CostListTo("B", ab)]>>)
    \o (IF ba = Undeclared THEN <<>> ELSE <<[Origin |-> "B", CostList |-> CostListTo("A", ba)]>>)

\* the zone level: z1 -> z2 declared or not, z2 -> z1 at 5, nothing from z3
ZoneOrigins(z12) ==
    <<[Origin |-> "z1", CostList |-> CostListTo("z2", z12)],
      [Origin |-> "z2", CostList |-> CostListTo("z1", <<5>>)],
      [Origin |-> "z3", CostList |-> <<>>]>>

Reverse(list) == [i \in 1..Len(list) |-> list[Len(list) + 1 - i]]

\* Spec.Weights: a scheme the plugin is not configured for, then the configured
\* one; handwritten lists may come in any order, here sorted or reversed
WeightsOf(name, ab, ba, z12, reversed) ==
    LET order(list) == IF reversed THEN Reverse(list) ELSE list
    IN <<[Name |-> "Other",
          TopologyList |-> <<[TopologyKey |-> NetworkTopologyRegion, OriginList |-> RegionOrigins(<<1>>, <<1>>)],
                             [TopologyKey |-> NetworkTopologyZone, OriginList |-> ZoneOrigins(<<1>>)]>>],
         [Name |-> name,
          TopologyList |-> order(<<[TopologyKey |-> NetworkTopologyRegion,
                                    OriginList |-> order(RegionOrigins(ab, ba))],
                                   [TopologyKey |-> NetworkTopologyZone,
                                    OriginList |-> order(ZoneOrigins(z12))]>>)]>>

\* findNetworkTopologyNetworkCostAware finds the object in no namespace
AbsentTopology == Nil

\* the configured weights: the controller's sorted costs, or handwritten ones
WeightModes == {<<"NetperfCosts", FALSE>>, <<"UserDefined", FALSE>>, <<"UserDefined", TRUE>>}

\* the maximum network cost every dependency tolerates
MaxNetworkCost == 10

DependencyChoices ==
    { <<>>,
      <<[Selector |-> "s1", MaxNetworkCost |-> MaxNetworkCost]>>,
      <<[Selector |-> "s1", MaxNetworkCost |-> MaxNetworkCost],
        [Selector |-> "s2", MaxNetworkCost |-> MaxNetworkCost]>> }

InitCost ==
    /\ gaIdle /\ rcIdle /\ nsIdle
    /\ \/ \E m \in WeightModes, ab \in {Undeclared, <<10>>, <<20>>}, ba \in {Undeclared, <<10>>}, z12 \in {Undeclared, <<20>>} :
             /\ tcWeightsName = m[1]
             /\ tcTopology = WeightsOf(m[1], ab, ba, z12, m[2])
       \/ \E m \in WeightModes : tcWeightsName = m[1] /\ tcTopology = AbsentTopology
    /\ tcDependencies \in DependencyChoices
    /\ \E a \in {"", "m1", "m2"}, b \in {"", "m3", "m4", "gone"} : tcHostname = [pA |-> a, pB |-> b]
    /\ tcState = Nil
    /\ tcRet = NoTCRet
    /\ tcPrev = NoPrev
    /\ tcOther = Nil

\* the pod lister returns the AppGroup's pods in no particular order
ListerOrders == {<<"pod0", "pA", "pB">>, <<"pB", "pA", "pod0">>}

NextCost ==
    \/ \E pod \in {"pod0", "podX"}, a \in ListerAnswers, pods \in ListerOrders :
           NetworkCostAwarePreFilter(pod, a[1], a[2], pods)
    \/ \E node \in TCNodes \cup {""} : Filter(node)
    \/ \E node \in TCNodes : Score(node)

SpecCost == InitCost /\ [][NextCost]_vars

\* PreFilter stored computed maps
Computed == tcState # Nil /\ ~tcState.scoreEqually

(* C5: in Computed state Filter rejects a node (Unschedulable) iff the node's
   violated count is strictly greater than its satisfied count, so equal
   counts pass; in ScoreEqually state every node passes. *)
C5_FilterRule ==
    (tcRet.op = "Filter" /\ tcRet.node \in TCNodes /\ tcState # Nil) =>
        /\ tcState.scoreEqually => tcRet.status = "Success"
        /\ Computed =>
              /\ tcRet.status \in {"Success", "Unschedulable"}
              /\ tcRet.status = "Unschedulable"
                    <=> tcState.violatedMap[tcRet.node] > tcState.satisfiedMap[tcRet.node]
              /\ tcState.violatedMap[tcRet.node] = tcState.satisfiedMap[tcRet.node]
                    => tcRet.status = "Success"

\* Filter rejected a node with more violated than satisfied dependencies
C5_Witness ==
    /\ tcRet.op = "Filter" /\ Computed /\ tcRet.status = "Unschedulable"
    /\ tcState.violatedMap[tcRet.node] = 1 /\ tcState.satisfiedMap[tcRet.node] = 0

Elems(seq) == {seq[i] : i \in 1..Len(seq)}

\* the costs the configured weights declare from origin to destination at a level
DeclaredCosts(key, origin, destination) ==
    LET schemes == {w \in Elems(tcTopology) : w.Name = tcWeightsName}
        levels == {t \in UNION {Elems(w.TopologyList) : w \in schemes} : t.TopologyKey = key}
        origins == {o \in UNION {Elems(t.OriginList) : t \in levels} : o.Origin = origin}
        costs == {c \in UNION {Elems(o.CostList) : o \in origins} : c.Destination = destination}
    IN {c.NetworkCost : c \in costs}

\* the dependencies of pod0 on pods placed on one of the nodes
DependenciesOn(nodes) ==
    Cardinality({<<p, k>> \in {"pA", "pB"} \X (1..Len(tcDependencies)) :
                    /\ tcHostname[p] \in nodes
                    /\ tcDependencies[k].Selector = GetPodAppGroupSelector(p)})

(* C9: cost lookups are keyed by the (origin, destination) pair. When the
   configured weights declare no cost from region B to region A, whatever they
   declare from A to B, the cost map of the node in B has no entry towards A,
   and each dependency of the pod on a pod placed in A adds the penalty
   MaxCost to that node's accumulated cost and counts neither as satisfied
   nor as violated. *)
C9_NoReverseLookup ==
    (Computed /\ DeclaredCosts(NetworkTopologyRegion, "B", "A") = {}) =>
        /\ CostKey("B", "A") \notin DOMAIN tcState.nodeCostMap["m3"]
        /\ tcState.finalCostMap["m3"] = MaxCost * DependenciesOn({"m1", "m2", "m4"})
        /\ tcState.satisfiedMap["m3"] = DependenciesOn({"m3"})
        /\ tcState.violatedMap["m3"] = DependenciesOn({"m4"})

\* cost(A -> B) = 10 is declared, (B -> A) is not, and the node in B was
\* charged the penalty for a dependency on a pod in A
C9_Witness ==
    /\ Computed
    /\ DeclaredCosts(NetworkTopologyRegion, "A", "B") = {10}
    /\ DeclaredCosts(NetworkTopologyRegion, "B", "A") = {}
    /\ DependenciesOn({"m1", "m2"}) = 1 /\ DependenciesOn({"m4"}) = 0
    /\ tcState.finalCostMap["m3"] = MaxCost

(* C10: a second PreFilter call for the same pod in the same CycleState, with
   the AppGroup, the NetworkTopology, the pods and the snapshot unchanged and
   the listers answering as before, stores the same final-cost, satisfied and
   violated maps as the first, in whatever order the lister returns the pods. *)
C10_PreFilterIdempotent ==
    tcPrev.repeat =>
        /\ tcPrev.stored # Nil
        /\ tcState.scoreEqually = tcPrev.stored.scoreEqually
        /\ tcState.finalCostMap = tcPrev.stored.finalCostMap
        /\ tcState.satisfiedMap = tcPrev.stored.satisfiedMap
        /\ tcState.violatedMap = tcPrev.stored.violatedMap

\* a repeated PreFilter call stored computed maps with a cost other than zero
C10_Witness ==
    /\ tcPrev.repeat /\ Computed
    /\ tcState.finalCostMap["m1"] > 0
    /\ DependenciesOn(TCNodes) = 2

-----------------------------------------------------------------------------
(* Properties of the cache operations                                       *)

\* the last call was PreFilter for a pod without a PodGroup: no label, or a
\* label naming a PodGroup that cannot be fetched
UngroupedPreFilter(r) == r.op = "PreFilter" /\ GetPodGroup(r.pod).pg = Nil

\* C11: PreFilter for a pod that carries no PodGroup label, or whose PodGroup
\* cannot be fetched, succeeds without listing pods or scanning nodes, whatever
\* the caches hold, and leaves both caches as they were.
C11_UngroupedPasses ==
    [][UngroupedPreFilter(ret') =>
          /\ ret'.status = "ok" /\ ~ret'.listed /\ ~ret'.scanned
          /\ permittedPG' = permittedPG /\ backedOffPG' = backedOffPG]_vars

\* PreFilter has passed q1, whose label names the absent ns2/g, while that
\* name sits unexpired in the backed-off cache
C11_Witness ==
    /\ ret.op = "PreFilter" /\ ret.pod = "q1" /\ ret.status = "ok"
    /\ CacheGet(backedOffPG, GetPodGroupFullName("q1"), now)

\* C12: Permit answers PodGroupNotSpecified for a pod without a PodGroup label
\* and PodGroupNotFound for a pod whose label names a PodGroup that cannot be
\* fetched, and in both cases leaves every CycleState as it was.
C12_UngroupedPermit ==
    [][(ret'.op = "Permit" /\ GetPodGroup(ret'.pod).pg = Nil) =>
          /\ ret'.status = IF GetPodGroupLabel(ret'.pod) = "" THEN "PodGroupNotSpecified"
                           ELSE "PodGroupNotFound"
          /\ cycleState' = cycleState]_vars

\* Permit has turned q1 away because ns2/g cannot be fetched; its CycleState
\* holds no PermitState
C12_Witness ==
    /\ ret.op = "Permit" /\ ret.pod = "q1" /\ ret.status = "PodGroupNotFound"
    /\ cycleState["q1"] = Nil

\* C13 as stated: BackoffPodGroup(name, 0) changes neither cache; with any
\* other d the backed-off cache afterwards holds name expiring d after the
\* call, and the permitted cache is unchanged.
C13_AsStated ==
    [][ret'.op = "BackoffPodGroup" =>
          /\ permittedPG' = permittedPG
          /\ backedOffPG' = IF ret'.d = 0 THEN backedOffPG
                            ELSE MapSet(backedOffPG, ret'.pg, [Object |-> Nil, Expiration |-> now + ret'.d])]_vars

\* C13, amended: BackoffPodGroup(name, d) never changes the permitted cache;
\* it changes the backed-off cache only when d # 0 and name has no unexpired
\* entry there, and then it stores name expiring d after the call when d > 0
\* and never expiring when d < 0.
C13_BackoffFrame ==
    [][ret'.op = "BackoffPodGroup" =>
          /\ permittedPG' = permittedPG
          /\ ret'.addErr = (ret'.d # 0 /\ CacheGet(backedOffPG, ret'.pg, now))
          /\ backedOffPG' =
                IF ret'.d = 0 \/ ret'.addErr THEN backedOffPG
                ELSE MapSet(backedOffPG, ret'.pg,
                            [Object |-> Nil, Expiration |-> IF ret'.d > 0 THEN now + ret'.d ELSE 0])]_vars

\* BackoffPodGroup has just stored a name with a positive duration while the
\* permitted cache holds an entry
C13_Witness ==
    /\ ret.op = "BackoffPodGroup" /\ ret.d > 0 /\ ~ret.addErr
    /\ ret.pg \in DOMAIN backedOffPG /\ backedOffPG[ret.pg].Expiration = now + ret.d
    /\ permittedPG # EmptyMap

-----------------------------------------------------------------------------
(* Properties of ActivateSiblings                                           *)

\* the keys of the pods that carry the pod's PodGroup label in the pod's
\* namespace, the pod itself left out
SiblingKeys(pod) ==
    {GetNamespacedName(p) : p \in {x \in Pods \ {pod} : /\ podStatus[x] # "absent"
                                                        /\ PodNamespace(x) = PodNamespace(pod)
                                                        /\ GetPodGroupLabel(x) = GetPodGroupLabel(pod)}}

\* C14: ActivateSiblings(pod) leaves PodsToActivate as it was unless the
\* pod's CycleState holds a PermitState with Activate = true; whenever it
\* changes the structure, and whenever the request is there and the pods were
\* listed without error, the structure afterwards is what it was plus the
\* namespace/name keys of every other pod with the pod's PodGroup label in its
\* namespace; no entry is ever removed.
C14_ActivateFrame ==
    [][ret'.op = "ActivateSiblings" =>
          LET pod == ret'.pod
              requested == cycleState[pod] # Nil /\ cycleState[pod].Activate
              acted == requested /\ ret'.status # "listFailed"
          IN /\ podsToActivate \subseteq podsToActivate'
             /\ ~requested => podsToActivate' = podsToActivate
             /\ podsToActivate' # podsToActivate => acted
             /\ acted => podsToActivate' = podsToActivate \cup SiblingKeys(pod)]_vars

\* ActivateSiblings(p1) has staged p2 and p3 and not p1 itself
C14_Witness ==
    /\ ret.op = "ActivateSiblings" /\ ret.pod = "p1" /\ ret.listed /\ ret.status = ""
    /\ podsToActivate = {GetNamespacedName("p2"), GetNamespacedName("p3")}

-----------------------------------------------------------------------------
(* Properties of DeletePermittedPodGroup                                    *)

\* C15: DeletePermittedPodGroup(g) takes g out of the permitted cache, leaves
\* its other entries, the backed-off cache and everything else as they were
\* (nothing changes when g is not there), and the PreFilter that follows for a
\* pod of g with MinResources set never passes on the permitted entry: if it
\* gets past the backed-off, listing and sibling-count checks it lists the
\* snapshot's nodes.
C15_DeleteFrame ==
    [][/\ ret'.op = "DeletePermittedPodGroup" =>
             /\ permittedPG' = [k \in DOMAIN permittedPG \ {ret'.pg} |-> permittedPG[k]]
             /\ (ret'.pg \notin DOMAIN permittedPG => permittedPG' = permittedPG)
             /\ UNCHANGED <<now, backedOffPG, gaEnv, podStatus, cycleState, podsToActivate>>
       /\ (/\ ret.op = "DeletePermittedPodGroup" /\ ret'.op = "PreFilter"
           /\ GetPodGroup(ret'.pod).pg # Nil /\ GetPodGroupFullName(ret'.pod) = ret.pg
           /\ minResources # Nil
           /\ ret'.status \notin {"failedRecently", "listFailed", "notEnoughSiblings"})
             => ret'.scanned]_vars

\* a PreFilter right after DeletePermittedPodGroup removed the group's
\* unexpired entry has scanned the nodes again and passed
C15_Witness ==
    /\ ret.op = "PreFilter" /\ ret.afterDelete /\ minResources # Nil
    /\ ret.scanned /\ ret.status = "ok"

-----------------------------------------------------------------------------
(* Properties of the NetworkCostAware plugin without its objects and        *)
(* without its PreFilter state                                              *)

\* C16: with the NetworkTopology found in no namespace, PreFilter for a pod
\* that carries an AppGroup label ends without a crash and leaves the
\* ScoreEqually state, after which Filter admits every node and Score gives
\* every node the minimum score.
C16_AsStated ==
    /\ (/\ tcRet.op = "PreFilter" /\ GetPodAppGroupLabel(tcRet.pod) # ""
        /\ tcTopology = AbsentTopology)
          => (tcRet.status # "panic" /\ tcState = ScoreEquallyState)
    /\ (tcRet.op = "Filter" /\ tcRet.node \in TCNodes /\ tcTopology = AbsentTopology /\ tcState # Nil)
          => tcRet.status = "Success"
    /\ (tcRet.op = "Score" /\ tcTopology = AbsentTopology /\ tcState # Nil)
          => (tcRet.status = "Success" /\ tcRet.score = MinNodeScore)

\* C17: on a CycleState without a PreFilterState, Filter answers Error and
\* Score answers Error together with the minimum node score.
C17_MissingState ==
    (tcRet.op \in {"Filter", "Score"} /\ tcState = Nil) =>
        /\ tcRet.status = "Error"
        /\ tcRet.op = "Score" => tcRet.score = MinNodeScore

\* Filter has been asked about a real node on a CycleState that PreFilter
\* never wrote, in a cluster where PreFilter would have computed costs
C17_Witness ==
    /\ tcRet.op = "Filter" /\ tcRet.node = "m1" /\ tcState = Nil /\ tcRet.status = "Error"
    /\ tcDependencies # <<>> /\ tcHostname["pA"] # ""

-----------------------------------------------------------------------------
(* Properties of the listing failures                                       *)

\* the last NetworkCostAware PreFilter called the pod lister: the pod has an
\* AppGroup label and dependencies, and the call got that far
PodListerCalled ==
    /\ tcRet.op = "PreFilter" /\ tcRet.status # "panic"
    /\ GetPodAppGroupLabel(tcRet.pod) # "" /\ GetDependencyList(tcRet.pod) # <<>>

\* C18: a failed pod listing or snapshot node listing ends the call with an
\* error, never with success or Wait: Permit whose snapshot cannot list its
\* nodes answers neither Success nor Wait, and the NetworkCostAware PreFilter
\* whose pod lister fails answers Error. (The admission PreFilter answers its
\* two listing failures with the errors listFailed and nodesFailed.)
C18_AsStated ==
    /\ (ret.op = "Permit" /\ GetPodGroup(ret.pod).pg # Nil /\ ~ret.nodesOK)
          => ret.status \notin {"Success", "Wait"}
    /\ (PodListerCalled /\ ~tcRet.podsOK) => tcRet.status = "Error"

-----------------------------------------------------------------------------
(* Properties of the NetworkCostAware PreFilter's early returns             *)

\* the AppGroup's pods that the lister shows with a node name
ScheduledPods == {p \in DOMAIN tcHostname : tcHostname[p] # ""}

\* the last PreFilter reached the loop over the nodes: the pod has an AppGroup
\* label and dependencies, pods of the AppGroup are scheduled, and the
\* NetworkTopology, the pod list and the node list were there
ReachedNodeLoop ==
    /\ tcRet.op = "PreFilter" /\ GetPodAppGroupLabel(tcRet.pod) # ""
    /\ tcTopology # AbsentTopology /\ GetDependencyList(tcRet.pod) # <<>>
    /\ tcRet.podsOK /\ tcRet.nodesOK /\ ScheduledPods # {}

\* a scheduled pod that one of the pod's dependencies selects sits on a node
\* the snapshot does not hold
LookupFails ==
    \E p \in ScheduledPods, i \in DOMAIN GetDependencyList(tcRet.pod) :
        /\ GetDependencyList(tcRet.pod)[i].Selector = GetPodAppGroupSelector(p)
        /\ tcHostname[p] \notin TCNodes

\* C19: when the lookup of a scheduled pod's node fails while PreFilter fills
\* the per-node maps, PreFilter answers Error and the CycleState holds the
\* initial ScoreEqually state with empty maps.
C19_LookupFailure ==
    (ReachedNodeLoop /\ LookupFails) =>
        (tcRet.status = "Error" /\ tcState = ScoreEquallyState)

\* PreFilter has failed on pB's missing node after it had counted pA, which
\* sits on the first node of the loop
C19_Witness ==
    /\ ReachedNodeLoop /\ LookupFails /\ tcRet.status = "Error"
    /\ tcHostname["pA"] = "m1" /\ tcHostname["pB"] = "gone"
    /\ tcState = ScoreEquallyState

\* the last PreFilter was for a pod without an AppGroup label, or without
\* dependencies in its AppGroup, or of an AppGroup none of whose pods is scheduled
NothingToWeigh ==
    /\ tcRet.op = "PreFilter"
    /\ \/ GetPodAppGroupLabel(tcRet.pod) = ""
       \/ GetDependencyList(tcRet.pod) = <<>>
       \/ ScheduledPods = {}

\* C20: PreFilter answers Success and leaves the ScoreEqually state when the
\* pod has no AppGroup label, no dependencies in its AppGroup, or no scheduled
\* pod in its AppGroup; in the ScoreEqually state Filter admits every node and
\* Score gives every node the minimum node score.
C20_AsStated ==
    /\ NothingToWeigh => (tcRet.status = "Success" /\ tcState = ScoreEquallyState)
    /\ (tcRet.op = "Filter" /\ tcRet.node \in TCNodes /\ tcState # Nil /\ tcState.scoreEqually)
          => tcRet.status = "Success"
    /\ (tcRet.op = "Score" /\ tcState # Nil /\ tcState.scoreEqually)
          => (tcRet.status = "Success" /\ tcRet.score = MinNodeScore)

-----------------------------------------------------------------------------
(* Properties of the PreFilterState's life in one scheduling cycle          *)

\* C21: whenever PreFilter returns, on an early success, an error or the full
\* computation, the CycleState holds a PreFilterState; the entry stays, and a
\* Filter or Score that follows for a node never answers with the
\* missing-state error.
C21_StateAlwaysStored ==
    [][/\ (tcRet'.op = "PreFilter" /\ tcRet'.status # "panic") => tcState' # Nil
       /\ tcState # Nil => tcState' # Nil
       /\ (tcState # Nil /\ tcRet'.op \in {"Filter", "Score"} /\ tcRet'.node \in TCNodes)
             => tcRet'.status # "Error"]_vars

\* Score has answered without error after a PreFilter that returned early in a
\* cluster whose pod has dependencies and a scheduled peer
C21_Witness ==
    /\ tcRet.op = "Score" /\ tcRet.status = "Success" /\ tcState = ScoreEquallyState
    /\ tcDependencies # <<>> /\ tcHostname["pA"] # "" /\ tcTopology # AbsentTopology

-----------------------------------------------------------------------------
(* Properties of the caches' expiry                                         *)

\* every entry of the cache carries an expiry instant
HasExpiry(cache) == \A k \in DOMAIN cache : cache[k].Expiration > 0

\* a lookup of k at instant t misses: no entry, or one whose expiry has passed
Lapsed(cache, k, t) ==
    k \notin DOMAIN cache \/ (cache[k].Expiration > 0 /\ t > cache[k].Expiration)

\* PreFilter for a pod of ns1/g finds what the caches hold before the call
\* lapsed and evaluates the group by its checks: it is not turned away as
\* failed recently, and with MinResources set it passes only after the scan
EvaluatedAfterMiss ==
    (ret'.op = "PreFilter" /\ GetPodGroupFullName(ret'.pod) = TheGroup) =>
        /\ Lapsed(backedOffPG, TheGroup, now) => ret'.status # "failedRecently"
        /\ (/\ Lapsed(permittedPG, TheGroup, now) /\ minResources # Nil
            /\ ret'.status \notin {"failedRecently", "listFailed", "notEnoughSiblings"})
              => ret'.scanned

\* the entry of ns1/g is live and expires before the clock of the model stops
ExpiresInTime(cache) ==
    /\ CacheGet(cache, TheGroup, now)
    /\ cache[TheGroup].Expiration > 0 /\ cache[TheGroup].Expiration < MaxTime

-----------------------------------------------------------------------------
(* Specification of two interleaved scheduling cycles: the cycles of p1 and *)
(* p2 reach Permit and ActivateSiblings on their own CycleStates, and the   *)
(* NetworkCostAware stages of one cycle run while the PreFilter of another  *)
(* cycle writes that cycle's CycleState                                     *)

InitCycles ==
    /\ gaInitCommon
    /\ minMember = MaxMinMember /\ minResources = Nil
    /\ podStatus = [p \in Pods |-> "pending"]
    /\ rcIdle /\ nsIdle
    /\ tcWeightsName = "UserDefined"
    /\ tcTopology = WeightsOf("UserDefined", <<20>>, <<20>>, <<20>>, FALSE)
    /\ tcDependencies \in DependencyChoices \ {<<>>}
    /\ tcHostname = [pA |-> "m1", pB |-> "m4"]
    /\ tcState = Nil
    /\ tcRet = NoTCRet
    /\ tcPrev = NoPrev
    /\ tcOther = Nil

NextCycles ==
    \/ \E p \in {"p1", "p2"} : Permit(p, TRUE)
    \/ \E p \in {"p1", "p2"} : ActivateSiblings(p, TRUE)
    \/ \E p \in {"p1", "p2"} : EndCycle(p)
    \/ \E pod \in {"pod0", "podX"} : NetworkCostAwarePreFilter(pod, TRUE, TRUE, <<"pod0", "pA", "pB">>)
    \/ \E pod \in {"pod0", "podX"} : PreFilterOtherCycle(pod, TRUE, TRUE, <<"pod0", "pA", "pB">>)
    \/ \E node \in {"m1", "m3"} : Filter(node)
    \/ \E node \in {"m1", "m3"} : Score(node)

SpecCycles == InitCycles /\ [][NextCycles]_vars

\* what Filter answers for a node from one PreFilterState (networkcost.go:339-361)
FilterFrom(state, node) ==
    IF state = Nil THEN "Error"
    ELSE IF state.scoreEqually THEN "Success"
    ELSE IF MapGet(state.violatedMap, node) > MapGet(state.satisfiedMap, node) THEN "Unschedulable"
    ELSE "Success"

\* what Score answers for a node from one PreFilterState (networkcost.go:369-387)
ScoreFrom(state, node) ==
    IF state = Nil \/ state.scoreEqually THEN MinNodeScore ELSE MapGet(state.finalCostMap, node)

\* C23: with two scheduling cycles interleaved, Filter and Score of a cycle
\* answer from the PreFilterState of their own CycleState alone and a write
\* to the other cycle's CycleState leaves it untouched; Permit for one pod
\* writes no other pod's CycleState, and ActivateSiblings for a pod stages
\* pods only when that pod's own CycleState holds the activation request.
C23_CycleIsolation ==
    [][/\ tcOther' # tcOther => (tcState' = tcState /\ tcRet' = tcRet)
       /\ tcState' # tcState => tcOther' = tcOther
       /\ (tcRet'.op = "Filter" /\ tcRet' # tcRet) => tcRet'.status = FilterFrom(tcState, tcRet'.node)
       /\ (tcRet'.op = "Score" /\ tcRet' # tcRet) => tcRet'.score = ScoreFrom(tcState, tcRet'.node)
       /\ \A a \in Pods : (ret'.op = "Permit" /\ ret'.pod # a) => cycleState'[a] = cycleState[a]
       /\ (ret'.op = "ActivateSiblings" /\ podsToActivate' # podsToActivate)
             => (cycleState[ret'.pod] # Nil /\ cycleState[ret'.pod].Activate)]_vars

\* Filter of one cycle has admitted m3 from its own ScoreEqually state while
\* the other cycle's state counts more violated than satisfied dependencies
\* on m3; ActivateSiblings for p1 has staged nothing while only p2's
\* CycleState holds the activation request
C23_Witness ==
    /\ tcRet.op = "Filter" /\ tcRet.node = "m3" /\ tcRet.status = "Success"
    /\ tcState = ScoreEquallyState
    /\ tcOther # Nil /\ FilterFrom(tcOther, "m3") = "Unschedulable"
    /\ ret.op = "ActivateSiblings" /\ ret.pod = "p1" /\ podsToActivate = {}
    /\ cycleState["p1"] = Nil /\ cycleState["p2"] # Nil

-----------------------------------------------------------------------------
(* Properties of concurrent ActivateSiblings calls                          *)

\* the calls that are inside the locked loop
Inserting == {p \in Pods : asPc[p] = "inserting"}

\* C24: concurrent ActivateSiblings calls store their siblings under the
\* structure's lock: at most one call is inside its loop, it holds the lock,
\* only that call changes the structure, and once no call is under way the
\* structure holds everything the finished calls set out to store.
C24_ExclusiveInsert ==
    [][/\ Cardinality(Inserting') <= 1
       /\ \A p \in Inserting' : asLock' = p
       /\ podsToActivate' # podsToActivate
             => (Inserting = {asLock} /\ Inserting' = Inserting /\ podsToActivate \subseteq podsToActivate')
       /\ (\A p \in Pods : asPc'[p] \in {"idle", "done"})
             => podsToActivate' = UNION {asStaged'[p] : p \in Pods}]_vars

\* the calls for p1 and p2 have both finished after p2 had to wait for the
\* lock, and the structure holds the siblings of both
C24_Witness ==
    /\ asPc["p1"] = "done" /\ asPc["p2"] = "done" /\ asLock = ""
    /\ asStaged["p1"] # {} /\ asStaged["p2"] # {} /\ asStaged["p1"] # asStaged["p2"]
    /\ podsToActivate = asStaged["p1"] \cup asStaged["p2"]

-----------------------------------------------------------------------------
(* Properties of the caches under concurrent calls                          *)

\* the step leaves the unexpired entry of k in the cache as it is
EntryKept(cache, cacheAfter, k) ==
    CacheGet(cache, k, now) => (k \in DOMAIN cacheAfter /\ cacheAfter[k] = cache[k])

-----------------------------------------------------------------------------
(* Properties of PreFilter's resource scan                                  *)

\* PreFilter(pod) gets as far as the permitted cache with MinResources set
\* when the listers answer: the group is found and not backed off, and
\* enough sibling pods are listed
ReachesPermittedLookup(pod) ==
    LET g == GetPodGroup(pod)
    IN /\ g.pg # Nil
       /\ ~RecentlyBackedOff(g.fullName)
       /\ ~TooFewSiblings(Cardinality(ListPods(PodNamespace(pod), GetPodGroupLabel(pod))), g.pg.MinMember)
       /\ g.pg.MinResources # Nil

\* a PreFilter call has just returned
PreFilterReturned == ret'.op = "PreFilter" /\ (ret' # ret \/ permittedPG' # permittedPG)

\* the quantity of resource name that the snapshot's nodes leave unmet
Unmet(pg, name) == ScanRequest(pg)[name] - SumLeft(SnapshotNodeInfos, 1, name)

ScanGapReported ==
    /\ ret.op = "PreFilter" /\ ret.scanned /\ ret.status = "resourceGap"
    /\ "cpu" \in DOMAIN ret.gap
    /\ TheGroup \notin DOMAIN permittedPG

\* C27: a group that is in the permitted cache (not backed off, with enough
\* sibling pods and with minResources set) passes PreFilter without the
\* snapshot's nodes being listed or scanned, whatever the nodes have left,
\* and the cache stays as it was.
C27_PermittedSkipsScan ==
    [][\A pod \in Pods :
          (/\ PreFilterReturned /\ ret'.pod = pod
           /\ ReachesPermittedLookup(pod)
           /\ CacheGet(permittedPG, GetPodGroup(pod).fullName, now)
           /\ ret'.status # "listFailed")
          => /\ ret'.status = "ok"
             /\ ~ret'.scanned
             /\ ret'.gap = EmptyMap
             /\ permittedPG' = permittedPG]_vars

\* PreFilter has passed p1 on the permitted entry alone: the nodes of the
\* snapshot no longer cover the group's request
C27_Witness ==
    /\ ret.op = "PreFilter" /\ ret.pod = "p1" /\ ret.status = "ok" /\ ~ret.scanned
    /\ minResources # Nil
    /\ CacheGet(permittedPG, TheGroup, now)
    /\ ~CheckClusterResource(SnapshotNodeInfos, ScanRequest(GetPodGroup("p1").pg), TheGroup).ok

-----------------------------------------------------------------------------
(* Properties of getNodeResource                                            *)

\* the cpu requests of a set of pods, added up
RECURSIVE CpuOf(_)
CpuOf(pods) ==
    IF pods = {} THEN 0
    ELSE LET x == CHOOSE y \in pods : TRUE IN x.cpu + CpuOf(pods \ {x})

\* the pods of a node that do not belong to the PodGroup under evaluation
RemainingPods(info) == {p \in info.Pods : p.group # TheGroup}

\* C28: the left resource of a node in the scan is what the node would have
\* without the pods of the PodGroup under evaluation: allocatable minus the
\* requests of the remaining pods, and the allowed pod number minus the
\* number of remaining pods; pods of other groups and pods without a group
\* stay counted.
C28_LeftWithoutOwnPods ==
    rcOut.called =>
        \A i \in 1..Len(rcNodeList) :
            LET info == rcNodeList[i]
                left == getNodeResource(info, TheGroup)
            IN /\ left.MilliCPU = info.Allocatable.cpu - CpuOf(RemainingPods(info))
               /\ left.AllowedPodNumber = info.Allocatable.pods - Cardinality(RemainingPods(info))

\* the check has run over a node with a pod of the group and a pod of another
\* group and a node with a pod that has no group
C28_Witness ==
    /\ rcOut.called
    /\ \E i \in 1..Len(rcNodeList) :
          /\ \E p \in rcNodeList[i].Pods : p.group = TheGroup
          /\ \E p \in rcNodeList[i].Pods : p.group = OtherGroup
    /\ \E i \in 1..Len(rcNodeList) : \E p \in rcNodeList[i].Pods : p.group = NoGroup

-----------------------------------------------------------------------------
(* The Group Admission and Topology Cost operations over one cluster        *)
(* snapshot: the scheduler assumes pods on n1, PreFilter and Permit run for *)
(* p1, CheckClusterResource runs over a list of NodeInfos, and the          *)
(* NetworkCostAware stages run for pod0                                     *)

InitSnapshot ==
    /\ gaInitCommon
    /\ minMember = 1 /\ minResources # Nil
    /\ podStatus = [p \in Pods |-> "pending"]
    /\ nsIdle
    /\ rcNodeList \in {l \in NodeLists : Len(l) = 1}
    /\ rcRequest = [cpu |-> MaxCpuRequest, pods |-> 1]
    /\ rcFirst = NoCheck /\ rcOut = NoCheck
    /\ tcWeightsName = "UserDefined"
    /\ tcTopology = WeightsOf("UserDefined", <<20>>, <<20>>, <<20>>, FALSE)
    /\ tcDependencies \in DependencyChoices \ {<<>>}
    /\ tcHostname = [pA |-> "m1", pB |-> "m4"]
    /\ tcState = Nil
    /\ tcRet = NoTCRet
    /\ tcPrev = NoPrev
    /\ tcOther = Nil

NextSnapshot ==
    \/ \E p \in {"p2", "q1"} : AssumePod(p, "n1")
    \/ PreFilter("p1", TRUE, TRUE)
    \/ Permit("p1", TRUE)
    \/ CallCheckClusterResource
    \/ NetworkCostAwarePreFilter("pod0", TRUE, TRUE, <<"pod0", "pA", "pB">>)
    \/ \E node \in {"m1", "m3"} : Filter(node)
    \/ \E node \in {"m1", "m3"} : Score(node)

SpecSnapshot == InitSnapshot /\ [][NextSnapshot]_vars

\* the cluster snapshot: the NodeInfos handed to CheckClusterResource, the
\* NodeInfos PreFilter and Permit list (every node's pods, allocatable and
\* requested figures) and the node names of the scheduled pods the
\* NetworkCostAware stages read
ClusterSnapshot == <<rcNodeList, SnapshotNodeInfos, tcHostname>>

\* a step of PreFilter, Permit or CheckClusterResource, or of the
\* NetworkCostAware PreFilter, Filter or Score
AdmissionOrCostStep ==
    \/ ret'.op \in {"PreFilter", "Permit"}
    \/ rcOut' # rcOut
    \/ tcRet' # tcRet
    \/ tcState' # tcState

\* C29: no Group Admission and no Topology Cost operation changes the
\* cluster snapshot: the scan removes the group's own pods from a clone of
\* each node, and every node's pod list, allocatable and requested figures
\* are the same before and after PreFilter, Permit, Filter and Score.
C29_SnapshotFrame == [][AdmissionOrCostStep => ClusterSnapshot' = ClusterSnapshot]_vars

\* the scans have worked on nodes that hold a pod of the group (p2 on n1 for
\* PreFilter, a listed node for CheckClusterResource), and Permit, Filter and
\* Score have run as well
C29_Witness ==
    /\ rcOut.called
    /\ \E i \in 1..Len(rcNodeList) : \E p \in rcNodeList[i].Pods : p.group = TheGroup
    /\ podStatus["p2"] = "n1"
    /\ ret.op = "PreFilter" /\ ret.scanned
    /\ permitHist.calls > 0
    /\ tcRet.op = "Score" /\ tcState # Nil

-----------------------------------------------------------------------------
(* Properties of the PreFilterState over one scheduling cycle               *)

\* the PreFilterState is one of the two the plugin stores
ScoreEquallyOrComputed(state) ==
    /\ state # Nil
    /\ state.scoreEqually => state = ScoreEquallyState

-----------------------------------------------------------------------------
(* Properties of the dependency count and the accumulated cost              *)

\* the snapshot's nodes that carry the zone label of node n
SameZoneNodes(n) == {m \in TCNodes : GetNodeZone(n) # "" /\ GetNodeZone(m) = GetNodeZone(n)}

\* the snapshot's nodes without a region and without a zone label
UnlabelledNodes == {m \in TCNodes : GetNodeRegion(m) = "" /\ GetNodeZone(m) = ""}

\* C31 as stated: for every candidate node, each matching dependency on a
\* pod of the same node or of a node with the candidate's zone is counted
\* satisfied, and each one on a pod of another node that has neither a region
\* nor a zone is counted violated.
C31_AsStated ==
    Computed =>
        \A n \in TCNodes :
            /\ tcState.satisfiedMap[n] >= DependenciesOn({n} \cup SameZoneNodes(n))
            /\ tcState.violatedMap[n] >= DependenciesOn(UnlabelledNodes \ {n})

\* the (scheduled pod, dependency) pairs with matching selectors
MatchingPairs ==
    {pk \in ScheduledPods \X (1..Len(tcDependencies)) :
        tcDependencies[pk[2]].Selector = GetPodAppGroupSelector(pk[1])}

\* node m is in the region and the zone of node n
SameRegionAndZone(n, m) == GetNodeRegion(n) = GetNodeRegion(m) /\ GetNodeZone(n) = GetNodeZone(m)

\* a pod on node m is weighed by a looked-up cost for candidate n: another
\* node, with a region or a zone, not in n's region and zone
InLookupCase(n, m) == m # n /\ m \notin UnlabelledNodes /\ ~SameRegionAndZone(n, m)

\* the (origin, destination) pair looked up: zones inside one region, regions otherwise
LookupPair(n, m) ==
    IF GetNodeRegion(n) = GetNodeRegion(m) THEN CostKey(GetNodeZone(n), GetNodeZone(m))
    ELSE CostKey(GetNodeRegion(n), GetNodeRegion(m))

\* the cost map of candidate n holds an entry for the pair of pod p's node
HasCostEntry(n, p) == LookupPair(n, tcHostname[p]) \in DOMAIN tcState.nodeCostMap[n]

CostEntry(n, p) == tcState.nodeCostMap[n][LookupPair(n, tcHostname[p])]

\* the pairs counted without a lookup: satisfied on the same node and in the
\* same region and zone, violated on a node without region and zone
SatisfiedOutright(n) ==
    {pk \in MatchingPairs :
        tcHostname[pk[1]] = n
        \/ (tcHostname[pk[1]] \notin UnlabelledNodes /\ SameRegionAndZone(n, tcHostname[pk[1]]))}

ViolatedOutright(n) == {pk \in MatchingPairs : tcHostname[pk[1]] \in UnlabelledNodes \ {n}}

\* the pairs of the lookup case whose cost entry exists and is at most the
\* dependency's maximum, exists and exceeds it, or does not exist
WithinCost(n) ==
    {pk \in MatchingPairs :
        /\ InLookupCase(n, tcHostname[pk[1]]) /\ HasCostEntry(n, pk[1])
        /\ CostEntry(n, pk[1]) <= tcDependencies[pk[2]].MaxNetworkCost}

BeyondCost(n) ==
    {pk \in MatchingPairs :
        /\ InLookupCase(n, tcHostname[pk[1]]) /\ HasCostEntry(n, pk[1])
        /\ CostEntry(n, pk[1]) > tcDependencies[pk[2]].MaxNetworkCost}

WithoutCost(n) ==
    {pk \in MatchingPairs : InLookupCase(n, tcHostname[pk[1]]) /\ ~HasCostEntry(n, pk[1])}

\* C32 as stated: a matching dependency on a pod of another node, in another
\* zone or region, with a region or a zone, is counted satisfied iff the cost
\* entry of the (origin, destination) pair exists and is at most the
\* dependency's maximum, and counted violated when the entry is missing or
\* exceeds the maximum.
C32_AsStated ==
    Computed =>
        \A n \in TCNodes :
            /\ tcState.satisfiedMap[n] = Cardinality(SatisfiedOutright(n) \cup WithinCost(n))
            /\ tcState.violatedMap[n] =
                  Cardinality(ViolatedOutright(n) \cup BeyondCost(n) \cup WithoutCost(n))

\* C32: such a dependency is counted satisfied iff the cost entry of the
\* pair exists and is at most the dependency's maximum, and counted violated
\* iff the entry exists and exceeds the maximum; without an entry it is
\* counted neither way.
C32_CostRule ==
    Computed =>
        \A n \in TCNodes :
            /\ tcState.satisfiedMap[n] = Cardinality(SatisfiedOutright(n) \cup WithinCost(n))
            /\ tcState.violatedMap[n] = Cardinality(ViolatedOutright(n) \cup BeyondCost(n))

\* for m1 the dependency on pB in region B is within the declared cost and
\* the one on pA in zone z2 is beyond it; for m3 no cost towards pA is declared
C32_Witness ==
    /\ Computed
    /\ Cardinality(WithinCost("m1")) = 1 /\ Cardinality(BeyondCost("m1")) = 1
    /\ tcState.satisfiedMap["m1"] = 1 /\ tcState.violatedMap["m1"] = 1
    /\ Cardinality(WithoutCost("m3")) = 1 /\ tcState.violatedMap["m3"] = 0

\* what a matching pair adds to the accumulated cost of candidate n: nothing
\* on the same node, SameZone in n's region and zone, the looked-up cost
\* when the pair has an entry, MaxCost otherwise
PairCost(n, pk) ==
    LET m == tcHostname[pk[1]]
    IN IF m = n THEN SameHostname
       ELSE IF m \in UnlabelledNodes THEN MaxCost
       ELSE IF SameRegionAndZone(n, m) THEN SameZone
       ELSE IF HasCostEntry(n, pk[1]) THEN CostEntry(n, pk[1])
       ELSE MaxCost

RECURSIVE SumPairCost(_, _)
SumPairCost(n, pairs) ==
    IF pairs = {} THEN 0
    ELSE LET pk == CHOOSE x \in pairs : TRUE
         IN PairCost(n, pk) + SumPairCost(n, pairs \ {pk})

\* C33: a matching dependency whose (origin, destination) pair has no cost
\* entry is skipped by the satisfied/violated count, which increments
\* neither counter, and adds MaxCost to the accumulated cost of the node.
C33_MissingEntryAsymmetry ==
    Computed =>
        \A n \in TCNodes :
            /\ tcState.satisfiedMap[n] + tcState.violatedMap[n]
                  = Cardinality(MatchingPairs) - Cardinality(WithoutCost(n))
            /\ tcState.finalCostMap[n]
                  = SumPairCost(n, MatchingPairs \ WithoutCost(n)) + MaxCost * Cardinality(WithoutCost(n))

\* the node in region B has no cost entry towards pA's region: the dependency
\* is in neither count and the accumulated cost is the penalty
C33_Witness ==
    /\ Computed
    /\ Cardinality(MatchingPairs) = 1 /\ Cardinality(WithoutCost("m3")) = 1
    /\ tcState.satisfiedMap["m3"] = 0 /\ tcState.violatedMap["m3"] = 0
    /\ tcState.finalCostMap["m3"] = MaxCost

\* what the pair adds when the zone alone decides that a pod is near
PairCostByZone(n, pk) ==
    LET m == tcHostname[pk[1]]
    IN IF m = n THEN SameHostname
       ELSE IF m \in SameZoneNodes(n) THEN SameZone
       ELSE IF HasCostEntry(n, pk[1]) THEN CostEntry(n, pk[1])
       ELSE MaxCost

RECURSIVE SumPairCostByZone(_, _)
SumPairCostByZone(n, pairs) ==
    IF pairs = {} THEN 0
    ELSE LET pk == CHOOSE x \in pairs : TRUE
         IN PairCostByZone(n, pk) + SumPairCostByZone(n, pairs \ {pk})

\* C34 as stated: the accumulated cost that PreFilter stores for a node, and
\* that Score returns for it, is the sum over the matching (scheduled pod,
\* dependency) pairs of 0 for a pod on the node, 1 for a pod on a node of the
\* same zone, the looked-up cost when the pair has an entry, and MaxCost
\* when it has none.
C34_AsStated ==
    Computed =>
        /\ \A n \in TCNodes : tcState.finalCostMap[n] = SumPairCostByZone(n, MatchingPairs)
        /\ (tcRet.op = "Score" /\ tcRet.node \in TCNodes)
              => tcRet.score = SumPairCostByZone(tcRet.node, MatchingPairs)

-----------------------------------------------------------------------------
(* Properties of the order of PreFilter's checks                            *)

\* the number of pods the lister shows for the pod's group
ListedSiblings(pod) == Cardinality(ListPods(PodNamespace(pod), GetPodGroupLabel(pod)))

\* C35: PreFilter applies its checks in the order backed-off lookup, sibling
\* count against minMember, minResources unset, permitted lookup: a group in
\* the backed-off cache fails also when it is in the permitted cache, a group
\* with fewer than minMember sibling pods fails also when it is permitted, and
\* the permitted cache decides only for a group that has minResources set.
C35_CheckOrder ==
    [][\A pod \in Pods :
          (PreFilterReturned /\ ret'.pod = pod /\ GetPodGroup(pod).pg # Nil /\ ret'.status # "listFailed")
          => LET g == GetPodGroup(pod)
                 backedOff == CacheGet(backedOffPG, g.fullName, now)
                 tooFew == ListedSiblings(pod) < g.pg.MinMember
                 permitted == CacheGet(permittedPG, g.fullName, now)
             IN /\ backedOff => (ret'.status = "failedRecently" /\ ~ret'.listed)
                /\ (~backedOff /\ tooFew) => ret'.status = "notEnoughSiblings"
                /\ (~backedOff /\ ~tooFew /\ g.pg.MinResources = Nil)
                      => (ret'.status = "ok" /\ ~ret'.scanned)
                /\ (~backedOff /\ ~tooFew /\ g.pg.MinResources # Nil /\ permitted)
                      => (ret'.status = "ok" /\ ~ret'.scanned)
                /\ (~backedOff /\ ~tooFew /\ g.pg.MinResources # Nil /\ ~permitted) => ret'.scanned]_vars

\* PreFilter has turned p1 away for too few sibling pods while its group is
\* in the permitted cache
C35_Witness ==
    /\ ret.op = "PreFilter" /\ ret.pod = "p1" /\ ret.status = "notEnoughSiblings"
    /\ CacheGet(permittedPG, TheGroup, now)
    /\ ~CacheGet(backedOffPG, TheGroup, now)

\* PreFilter has turned p1 away as backed off while its group is in the
\* permitted cache as well
BackedOffAndPermitted ==
    /\ ret.op = "PreFilter" /\ ret.pod = "p1" /\ ret.status = "failedRecently"
    /\ CacheGet(permittedPG, TheGroup, now)
    /\ CacheGet(backedOffPG, TheGroup, now)

\* C36: a PreFilter call that returns an error leaves the permitted and the
\* backed-off cache as they were; the permitted cache changes only when the
\* full resource scan has succeeded, by the insertion of the pod's group, and
\* PreFilter never changes the backed-off cache.
C36_ErrorFrame ==
    [][ret'.op = "PreFilter" =>
          /\ backedOffPG' = backedOffPG
          /\ ret'.status # "ok" => permittedPG' = permittedPG
          /\ permittedPG' # permittedPG =>
                /\ ret'.status = "ok" /\ ret'.scanned
                /\ permittedPG' = MapSet(permittedPG, GetPodGroupFullName(ret'.pod),
                                         [Object |-> GetPodGroupFullName(ret'.pod),
                                          Expiration |-> now + ScheduleTimeout])]_vars

\* PreFilter has failed on the snapshot's node list after an earlier call
\* had permitted the group and a backoff had been recorded
C36_Witness ==
    /\ ret.op = "PreFilter" /\ ret.status = "nodesFailed"
    /\ TheGroup \in DOMAIN permittedPG /\ TheGroup \in DOMAIN backedOffPG

-----------------------------------------------------------------------------
(* Properties of the quorum over repeated scheduling cycles                 *)

\* a Permit call for a pod of ns1/g has returned Success
PermitSucceeded == ret.op = "Permit" /\ GetPodGroupFullName(ret.pod) = TheGroup /\ ret.status = "Success"

-----------------------------------------------------------------------------
(* Properties of the Computed state's maps                                  *)

\* C38: whenever the stored PreFilterState is Computed, its node-cost,
\* satisfied, violated and final-cost maps have the same key set, the names of
\* the nodes of the snapshot that PreFilter listed.
C38_SameKeySet ==
    Computed =>
        /\ DOMAIN tcState.nodeCostMap = TCNodes
        /\ DOMAIN tcState.satisfiedMap = TCNodes
        /\ DOMAIN tcState.violatedMap = TCNodes
        /\ DOMAIN tcState.finalCostMap = TCNodes

\* PreFilter has stored a Computed state in which one node has a violated
\* dependency and another has neither a satisfied nor a violated one
C38_Witness ==
    /\ tcRet.op = "PreFilter" /\ Computed
    /\ \E n \in DOMAIN tcState.violatedMap : tcState.violatedMap[n] > 0
    /\ \E n \in DOMAIN tcState.violatedMap :
          tcState.violatedMap[n] = 0 /\ tcState.satisfiedMap[n] = 0

-----------------------------------------------------------------------------
(* The stages of one scheduling cycle that read the PreFilterState, on the  *)
(* cycle's CycleState and on a clone of it                                  *)

\* the scores the framework collects from Score for the nodes that passed Filter
CycleScores ==
    LET feasible == SelectSeq(TCNodeList, LAMBDA n : FilterFrom(tcState, n) = "Success")
    IN [i \in 1..Len(feasible) |-> ScoreFrom(tcState, feasible[i])]

\* PreFilterState.Clone (networkcost.go:119-121) as CycleState.Clone calls it:
\* the clone holds the PreFilterState of this cycle, the same object
Clone ==
    /\ ~Crashed
    /\ tcState # Nil
    /\ tcOther' = tcState
    /\ UNCHANGED <<tcWeightsName, tcTopology, tcDependencies, tcHostname, tcState, tcRet, tcPrev>>
    /\ UNCHANGED notTC

\* Filter called with the clone (networkcost.go:329-362)
FilterClone(node) ==
    /\ ~Crashed
    /\ tcOther # Nil
    /\ tcRet' = [NoTCRet EXCEPT !.op = "Filter", !.pod = "clone", !.node = node,
                                !.status = FilterFrom(tcOther, node)]
    /\ tcPrev' = NoPrev
    /\ UNCHANGED <<tcEnv, tcState>>
    /\ UNCHANGED notTC

\* Score called with the clone (networkcost.go:365-388)
ScoreClone(nodeName) ==
    /\ ~Crashed
    /\ tcOther # Nil
    /\ tcRet' = [NoTCRet EXCEPT !.op = "Score", !.pod = "clone", !.node = nodeName,
                                !.status = "Success", !.score = ScoreFrom(tcOther, nodeName)]
    /\ tcPrev' = NoPrev
    /\ UNCHANGED <<tcEnv, tcState>>
    /\ UNCHANGED notTC

\* networkcost.go:391-420 keeping the normalized scores in the PreFilterState
NormalizeCycleScoresStoring ==
    /\ ~Crashed
    /\ tcState # Nil
    /\ nsRaw' = CycleScores
    /\ nsScores' = NormalizeScore(nsRaw')
    /\ nsDone' = TRUE
    /\ tcState' = [tcState EXCEPT !.finalCostMap =
                       [n \in DOMAIN @ |-> inverted(@[n], MinNodeScore)]]
    /\ UNCHANGED <<tcEnv, tcRet, tcPrev>>
    /\ UNCHANGED <<gaVars, rcVars, asVars, pfVars>>

\* NormalizeScore (networkcost.go:391-420) on the scores of the cycle
NormalizeCycleScores ==
    /\ ~Crashed
    /\ tcState # Nil
    /\ nsRaw' = CycleScores
    /\ nsScores' = NormalizeScore(nsRaw')
    /\ nsDone' = TRUE
    /\ UNCHANGED notNS

InitStages ==
    /\ gaIdle /\ rcIdle /\ nsIdle
    /\ tcWeightsName = "UserDefined"
    /\ tcTopology = WeightsOf("UserDefined", <<20>>, <<10>>, <<20>>, FALSE)
    /\ tcDependencies \in DependencyChoices
    /\ \E a \in {"", "m1", "m2"}, b \in {"", "m3", "m4"} : tcHostname = [pA |-> a, pB |-> b]
    /\ tcState = Nil
    /\ tcRet = NoTCRet
    /\ tcPrev = NoPrev
    /\ tcOther = Nil

NextStages ==
    \/ \E pod \in {"pod0", "podX"} : NetworkCostAwarePreFilter(pod, TRUE, TRUE, <<"pod0", "pA", "pB">>)
    \/ \E node \in TCNodes : Filter(node)
    \/ \E node \in TCNodes : Score(node)
    \/ NormalizeCycleScores
    \/ Clone
    \/ \E node \in TCNodes : FilterClone(node)
    \/ \E node \in TCNodes : ScoreClone(node)

SpecStages == InitStages /\ [][NextStages]_vars

\* a Filter or a Score call has just returned
FilterOrScoreReturned == tcRet'.op \in {"Filter", "Score"} /\ tcRet' # tcRet

\* a NormalizeScore call has just returned
NormalizeScoreReturned == nsDone' /\ <<nsRaw, nsScores, nsDone>>' # <<nsRaw, nsScores, nsDone>>

\* C39: Filter, Score and NormalizeScore leave the stored PreFilterState as
\* PreFilter wrote it, its ScoreEqually flag and its per-node maps, in the
\* cycle's CycleState and in a clone that shares it; NormalizeScore changes
\* the score list it was passed and nothing else.
C39_StagesReadOnly ==
    [][/\ (FilterOrScoreReturned \/ NormalizeScoreReturned)
            => (tcState' = tcState /\ tcOther' = tcOther)
       /\ NormalizeScoreReturned => (tcRet' = tcRet /\ UNCHANGED notNS)]_vars

\* NormalizeScore has rewritten the scores of a Computed state that a clone
\* shares, after Score was called with the clone
C39_Witness ==
    /\ Computed /\ tcOther = tcState
    /\ tcRet.op = "Score" /\ tcRet.pod = "clone" /\ tcRet.score > 0
    /\ nsDone /\ nsScores # nsRaw

-----------------------------------------------------------------------------
(* Bounds of the dependency counts                                          *)

\* the dependencies PreFilter counted for node n, satisfied or violated
Counted(n) == tcState.satisfiedMap[n] + tcState.violatedMap[n]

\* C40: for every node the satisfied and the violated count that PreFilter
\* computed are non-negative, their sum is at most the number of (scheduled
\* pod, dependency) pairs with matching selectors, and the sum equals that
\* number exactly when no such pair is in the cost-lookup case with a missing
\* cost entry.
C40_CountBounds ==
    Computed =>
        \A n \in TCNodes :
            /\ tcState.satisfiedMap[n] >= 0
            /\ tcState.violatedMap[n] >= 0
            /\ Counted(n) <= Cardinality(MatchingPairs)
            /\ Counted(n) = Cardinality(MatchingPairs) <=> WithoutCost(n) = {}

\* with two matching pairs, one node counts both and another counts fewer,
\* a pair of its lookup case having no cost entry
C40_Witness ==
    /\ Computed
    /\ Cardinality(MatchingPairs) = 2
    /\ \E n \in TCNodes : Counted(n) = 2 /\ tcState.violatedMap[n] > 0
    /\ \E n \in TCNodes : Counted(n) < 2 /\ WithoutCost(n) # {}

====
